---- MODULE Spec2Model ----
(***************************************************************************)
(* Verification model of the Enedis grid tools:                            *)
(*   - the spatial connection engine of update_enedis_data                  *)
(*     (connections.py, connections_optimization.py,                        *)
(*     connections_cleaning.py, connections_scoring.py),                    *)
(*   - the sequential connection engine of data_connections,                *)
(*   - the path finder of network_path_finder.                              *)
(* Geometries are collinear: a feature is an interval <<a, b>> of integer   *)
(* abscissas (a Point has a = b), distances are Euclidean on that line.     *)
(***************************************************************************)
EXTENDS Integers, Naturals, Sequences, FiniteSets, TLC

\* ------------------------------------------------------------------------
\* Bounds of the model
\* ------------------------------------------------------------------------
MaxCoord == 3
\* futures that may raise in one run of the pipeline
MaxRaised == 1
\* entries of the longest chain of connected features handed to the searches
MaxChain == 12
\* the largest max_attempts handed to the retry decorator
MaxAttempts == 3
\* the number of consecutive runs of a pipeline in one environment
MaxRuns == 3
\* the largest number of sites the grid processor counts
MaxSites == 3

\* ------------------------------------------------------------------------
\* Configuration (update_enedis_data/config.py)
\* ------------------------------------------------------------------------
CLOSE == 2
MID == 5
FAR == 10

LayerKeys ==
  <<"postes_source", "postes_electrique", "position_geographique",
    "reseau_souterrain_bt", "reseau_bt", "reseau_souterrain_hta">>

PointLayers == {"postes_source", "postes_electrique", "position_geographique"}

NoDict == [l \in {} |-> [priority |-> 0, radius |-> 0]]

PriorityTable ==
  [l \in PointLayers |->
     [priority |-> IF l = "postes_source" THEN 1
                   ELSE IF l = "postes_electrique" THEN 2 ELSE 3,
      radius |-> FAR]]

LAYERS_CONFIG ==
  [l \in {LayerKeys[i] : i \in 1..Len(LayerKeys)} |->
     IF l \in PointLayers
     THEN [radius |-> IF l = "postes_source" THEN FAR ELSE MID,
           exclude_connections |-> PointLayers,
           priority_connections |-> NoDict,
           mono_connection_per_endpoint |-> FALSE,
           has_solo |-> FALSE,
           solo_connection_if |-> NoDict]
     ELSE IF l \in {"reseau_souterrain_bt", "reseau_bt"}
     THEN [radius |-> CLOSE,
           exclude_connections |-> {},
           priority_connections |-> PriorityTable,
           mono_connection_per_endpoint |-> TRUE,
           has_solo |-> FALSE,
           solo_connection_if |-> NoDict]
     ELSE [radius |-> CLOSE,
           exclude_connections |-> {},
           priority_connections |-> NoDict,
           mono_connection_per_endpoint |-> FALSE,
           has_solo |-> TRUE,
           solo_connection_if |-> PriorityTable]]

\* ------------------------------------------------------------------------
\* Feature store: the features a run may load, in all_features order
\* (layers in LAYERS_CONFIG order, ids "<layer>_<n>").
\* ------------------------------------------------------------------------
AllIds ==
  <<"postes_source_1", "postes_electrique_1", "reseau_bt_1", "reseau_bt_2",
    "reseau_souterrain_hta_1">>

IdSet == {AllIds[i] : i \in 1..Len(AllIds)}

IdLayer ==
  [id \in IdSet |->
     CASE id = "postes_source_1" -> "postes_source"
       [] id = "postes_electrique_1" -> "postes_electrique"
       [] id \in {"reseau_bt_1", "reseau_bt_2"} -> "reseau_bt"
       [] OTHER -> "reseau_souterrain_hta"]

IsLine(id) == IdLayer[id] \notin PointLayers

VARIABLES
  geometry,        \* id -> <<a, b>>, the loaded features (DOMAIN = the cast)
  rows,            \* id -> the three connection columns of the feature's row
  pc,              \* position of the pipeline driver
  layer_idx,       \* index in sorted_layers of the layer being processed
  pending,         \* futures of the current layer not yet completed
  all_results,     \* results appended in completion order
  raised,          \* features whose future raised in future.result()
  network_lookup,  \* path finder: id -> layer, connections, feature
  point,           \* path finder: the query point
  closest_elements, \* path finder: the low-voltage candidates, nearest first
  attempt,         \* path finder: index of the candidate being tried
  path,            \* path finder: the path of the last strategy, <<>> = None
  success,         \* find_closest_path: success
  result_info,     \* find_closest_path: result_info, <<>> = None
  results,         \* find_closest_path: the returned value, <<>> = not yet
  connections_cache, \* GridProcessor: id -> connections, layer
  site_results,    \* GridProcessor: the site results saved so far
  rule_cfg,        \* rules probe: the layer rules handed to the search
  probe,           \* rules probe: the last endpoint search, <<>> = none
  retry_call,      \* utils.retry: the locals of a running wrapper call
  search,          \* the locals of a graph search run step by step
  pipeline,        \* s_update_enedis: the output folders and the runs of main
  grid_run         \* GridProcessor.run: the temp table and the batch loop

finder_vars ==
  <<network_lookup, point, closest_elements, attempt, path, success,
    result_info, results>>

grid_vars == <<connections_cache, site_results>>

rules_vars == <<rule_cfg, probe>>

step_vars == <<retry_call, search, pipeline, grid_run>>

vars ==
  <<geometry, rows, pc, layer_idx, pending, all_results, raised,
    network_lookup, point, closest_elements, attempt, path, success,
    result_info, results, connections_cache, site_results, rule_cfg, probe,
    retry_call, search, pipeline, grid_run>>

\* ------------------------------------------------------------------------
\* Geometry kernel
\* ------------------------------------------------------------------------
Abs(x) == IF x < 0 THEN -x ELSE x
Min2(x, y) == IF x <= y THEN x ELSE y
Max2(x, y) == IF x <= y THEN y ELSE x

Lo(g) == Min2(g[1], g[2])
Hi(g) == Max2(g[1], g[2])

\* shapely geometry.distance between two collinear geometries
Distance(g1, g2) ==
  IF Hi(g1) < Lo(g2) THEN Lo(g2) - Hi(g1)
  ELSE IF Hi(g2) < Lo(g1) THEN Lo(g1) - Hi(g2)
  ELSE 0

PointOf(p) == <<p, p>>

\* ------------------------------------------------------------------------
\* Sequence helpers
\* ------------------------------------------------------------------------
Range(s) == {s[i] : i \in 1..Len(s)}

Front(s) == SubSeq(s, 1, Len(s) - 1)
Last(s) == s[Len(s)]
Take(s, n) == SubSeq(s, 1, Min2(n, Len(s)))

RECURSIVE RemoveFirst(_, _)
\* list.remove(x): drops the first occurrence
RemoveFirst(s, x) ==
  IF s = <<>> THEN <<>>
  ELSE IF Head(s) = x THEN Tail(s)
  ELSE <<Head(s)>> \o RemoveFirst(Tail(s), x)

RECURSIVE SelectIds(_, _)
\* the members of S in the order of s
SelectIds(s, S) ==
  IF s = <<>> THEN <<>>
  ELSE IF Head(s) \in S THEN <<Head(s)>> \o SelectIds(Tail(s), S)
  ELSE SelectIds(Tail(s), S)

\* list(set(...)): one fixed enumeration of the set
SetToList(S) == SelectIds(AllIds, S)

\* ------------------------------------------------------------------------
\* Connection engine (update_enedis_data/connections.py)
\* ------------------------------------------------------------------------
\* ConnectionCandidate.__lt__: first by priority, then by distance
CandidateLess(c1, c2) ==
  IF c1.priority # c2.priority THEN c1.priority < c2.priority
  ELSE c1.distance < c2.distance

RECURSIVE InsertCandidate(_, _)
InsertCandidate(c, s) ==
  IF s = <<>> THEN <<c>>
  ELSE IF CandidateLess(c, Head(s)) THEN <<c>> \o s
  ELSE <<Head(s)>> \o InsertCandidate(c, Tail(s))

RECURSIVE SortCandidates(_)
\* list.sort() on ConnectionCandidate objects (stable)
SortCandidates(s) ==
  IF s = <<>> THEN <<>>
  ELSE InsertCandidate(Last(s), SortCandidates(Front(s)))

RECURSIVE InsertByDistance(_, _)
InsertByDistance(c, s) ==
  IF s = <<>> THEN <<c>>
  ELSE IF c.distance < Head(s).distance THEN <<c>> \o s
  ELSE <<Head(s)>> \o InsertByDistance(c, Tail(s))

RECURSIVE SortByDistance(_)
\* list.sort(key=distance) (stable)
SortByDistance(s) ==
  IF s = <<>> THEN <<>>
  ELSE InsertByDistance(Last(s), SortByDistance(Front(s)))

CandidateIds(cs) == [i \in 1..Len(cs) |-> cs[i].id]

\* the features of the store, in all_features order
StoreIds(g) == SelectIds(AllIds, DOMAIN g)

\* spatial_index.intersection(buf.bounds) refined by intersects(buf),
\* then the exclusion filter
Matches(g, endpoint, search_radius, exclude_list) ==
  LET hit == {id \in DOMAIN g :
                /\ Distance(g[id], PointOf(endpoint)) <= search_radius
                /\ ~(exclude_list # {} /\ IdLayer[id] \in exclude_list)}
  IN SelectIds(AllIds, hit)

\* candidates of the layers of a rule table lying within the per-layer radius
RECURSIVE ValidCandidates(_, _, _, _)
ValidCandidates(g, endpoint, ids, table) ==
  IF ids = <<>> THEN <<>>
  ELSE LET id == Head(ids)
           d == Distance(g[id], PointOf(endpoint))
           rest == ValidCandidates(g, endpoint, Tail(ids), table)
       IN IF IdLayer[id] \in DOMAIN table /\ d <= table[IdLayer[id]].radius
          THEN <<[id |-> id, source_layer |-> IdLayer[id], distance |-> d,
                  priority |-> table[IdLayer[id]].priority]>> \o rest
          ELSE rest

AllCandidates(g, endpoint, ids) ==
  [i \in 1..Len(ids) |->
     [id |-> ids[i], source_layer |-> IdLayer[ids[i]],
      distance |-> Distance(g[ids[i]], PointOf(endpoint)), priority |-> 999]]

SoloPick(valid) == <<SortCandidates(valid)[1]>>

PriorityPick(valid) == <<SortCandidates(valid)[1]>>

DefaultPick(cands, max_connections) ==
  Take(SortByDistance(cands), max_connections)

_search_with_radius_priority_first(g, endpoint, search_radius, exclude_list, priority_connections, mono_connection, has_solo, solo_dict, max_connections) ==
  LET matches == Matches(g, endpoint, search_radius, exclude_list)
      solo_valid == ValidCandidates(g, endpoint, matches, solo_dict)
      prio_valid == ValidCandidates(g, endpoint, matches, priority_connections)
  IN IF matches = <<>> THEN <<>>
     ELSE IF /\ mono_connection
             /\ DOMAIN priority_connections # {}
             /\ prio_valid # <<>>
          THEN PriorityPick(prio_valid)
     ELSE IF has_solo /\ solo_valid # <<>> THEN SoloPick(solo_valid)
     ELSE DefaultPick(AllCandidates(g, endpoint, matches), max_connections)

_search_with_radius(g, endpoint, search_radius, exclude_list, priority_connections, mono_connection, has_solo, solo_dict, max_connections) ==
  LET matches == Matches(g, endpoint, search_radius, exclude_list)
      solo_valid == ValidCandidates(g, endpoint, matches, solo_dict)
      prio_valid == ValidCandidates(g, endpoint, matches, priority_connections)
  IN IF matches = <<>> THEN <<>>
     ELSE IF has_solo /\ solo_valid # <<>> THEN SoloPick(solo_valid)
     ELSE IF /\ mono_connection
             /\ DOMAIN priority_connections # {}
             /\ prio_valid # <<>>
          THEN PriorityPick(prio_valid)
     ELSE DefaultPick(AllCandidates(g, endpoint, matches), max_connections)

select_connection_candidates(g, endpoint, cfg, has_solo, solo_dict, max_connections) ==
  LET candidates ==
        _search_with_radius(g, endpoint, cfg.radius, cfg.exclude_connections,
                            cfg.priority_connections,
                            cfg.mono_connection_per_endpoint,
                            has_solo, solo_dict, max_connections)
  IN IF /\ candidates = <<>>
        /\ DOMAIN cfg.priority_connections # {}
        /\ cfg.mono_connection_per_endpoint
     THEN _search_with_radius(g, endpoint, FAR, cfg.exclude_connections,
                              cfg.priority_connections,
                              cfg.mono_connection_per_endpoint,
                              has_solo, solo_dict, max_connections)
     ELSE candidates

EmptyResult ==
  [connections |-> <<>>, start_connections |-> <<>>, end_connections |-> <<>>]

RemoveSelf(ids, feature_id) == RemoveFirst(ids, feature_id)

\* the candidates of one endpoint of a LineString feature
EndpointCandidates(g, feature_id, endpoint, max_connections) ==
  LET cfg == LAYERS_CONFIG[IdLayer[feature_id]]
  IN select_connection_candidates(g, endpoint, cfg, cfg.has_solo,
                                  cfg.solo_connection_if, max_connections)

\* process_feature_worker: the branch of the geometries that are not
\* LineStrings
worker_point_branch(g, feature_id, max_connections_per_endpoint) ==
  LET cfg == LAYERS_CONFIG[IdLayer[feature_id]]
      candidate_ids ==
        RemoveSelf(CandidateIds(select_connection_candidates(
          g, g[feature_id][1], cfg, FALSE, NoDict,
          max_connections_per_endpoint)), feature_id)
  IN [connections |-> candidate_ids,
      start_connections |-> <<>>,
      end_connections |-> <<>>]

process_feature_worker(g, feature_id, max_connections_per_endpoint) ==
  LET cfg == LAYERS_CONFIG[IdLayer[feature_id]]
  IN IF IsLine(feature_id)
     THEN LET start_ids ==
                RemoveSelf(CandidateIds(EndpointCandidates(
                  g, feature_id, g[feature_id][1],
                  max_connections_per_endpoint)), feature_id)
              end_ids ==
                RemoveSelf(CandidateIds(EndpointCandidates(
                  g, feature_id, g[feature_id][2],
                  max_connections_per_endpoint)), feature_id)
          IN [connections |-> SetToList(Range(start_ids) \cup Range(end_ids)),
              start_connections |-> start_ids,
              end_connections |-> end_ids]
     ELSE worker_point_branch(g, feature_id, max_connections_per_endpoint)

MaxValidated == 60

remove_self_reference_kept(ids, feature_id) == ids

\* validate_connections: "if feature_id in connections: connections.remove"
remove_self_reference(ids, feature_id) == RemoveFirst(ids, feature_id)

\* validate_connections of connections.py, for one row
validate_row(g, feature_id, row) ==
  LET valid(s) == SelectIds(s, DOMAIN g)
      connections == remove_self_reference(valid(row.connections), feature_id)
  IN [connections |-> Take(connections, MaxValidated),
      start_connections |->
        remove_self_reference(valid(row.start_connections), feature_id),
      end_connections |->
        remove_self_reference(valid(row.end_connections), feature_id)]

\* compute_connections: max_connections of a layer
MaxConnectionsOf(layer_key) ==
  IF layer_key \in {"reseau_souterrain_bt", "reseau_bt"} THEN 1
  ELSE IF layer_key \in PointLayers THEN 30 ELSE 60

\* ------------------------------------------------------------------------
\* Sequential engine (data_connections/connections.py, config.py)
\* ------------------------------------------------------------------------
DC_CLOSE == 1
DC_MID == 3
DC_FAR == 7

csv_priority ==
  [l \in PointLayers |->
     [priority |-> IF l = "postes_source" THEN 1
                   ELSE IF l = "postes_electrique" THEN 2 ELSE 3,
      radius |-> IF l = "postes_source" THEN DC_FAR ELSE DC_MID]]

csv_files ==
  [l \in {LayerKeys[i] : i \in 1..Len(LayerKeys)} |->
     IF l \in PointLayers
     THEN [radius |-> IF l = "postes_source" THEN DC_FAR ELSE DC_MID,
           exclude_connections |-> PointLayers,
           priority_connections |-> NoDict,
           mono_connection_per_endpoint |-> FALSE,
           has_solo |-> FALSE,
           solo_connection_if |-> NoDict]
     ELSE IF l \in {"reseau_souterrain_bt", "reseau_bt"}
     THEN [radius |-> DC_CLOSE,
           exclude_connections |-> {},
           priority_connections |-> csv_priority,
           mono_connection_per_endpoint |-> TRUE,
           has_solo |-> FALSE,
           solo_connection_if |-> NoDict]
     ELSE [radius |-> DC_CLOSE,
           exclude_connections |-> {},
           priority_connections |-> NoDict,
           mono_connection_per_endpoint |-> FALSE,
           has_solo |-> TRUE,
           solo_connection_if |-> csv_priority]]

\* sort_values(by="distance") then iloc[0]
NearestCandidate(valid) == SortByDistance(valid)[1].id

\* sort_values(by=["priority", "distance"]) then iloc[0]
BestPriorityCandidate(valid) == SortCandidates(valid)[1].id

\* the ids chosen for one endpoint of a LineString, before self removal
dc_endpoint_ids(g, endpoint, cfg) ==
  LET matches == Matches(g, endpoint, cfg.radius, cfg.exclude_connections)
      valid_solo == ValidCandidates(g, endpoint, matches, cfg.solo_connection_if)
      candidates == SelectIds(matches,
                      {id \in Range(matches) :
                         IdLayer[id] \in DOMAIN cfg.priority_connections})
      valid_candidates ==
        ValidCandidates(g, endpoint, matches, cfg.priority_connections)
      mono == /\ cfg.mono_connection_per_endpoint
              /\ DOMAIN cfg.priority_connections # {}
  IN IF cfg.has_solo
     THEN IF valid_solo # <<>> THEN {NearestCandidate(valid_solo)}
          ELSE IF mono
               THEN IF candidates # <<>> /\ valid_candidates # <<>>
                    THEN {BestPriorityCandidate(valid_candidates)}
                    ELSE {}
               ELSE Range(matches)
     ELSE IF mono
          THEN IF candidates # <<>>
               THEN IF valid_candidates # <<>>
                    THEN {BestPriorityCandidate(valid_candidates)}
                    ELSE {}
               ELSE Range(matches)
          ELSE Range(matches)

\* data_connections find_connections: the branch of the geometries that
\* are not LineStrings
dc_point_branch(g, feature_id) ==
  LET cfg == csv_files[IdLayer[feature_id]]
  IN [connections |->
        SetToList(Range(Matches(g, g[feature_id][1], cfg.radius,
                                cfg.exclude_connections))
                  \ {feature_id}),
      start_connections |-> <<>>,
      end_connections |-> <<>>]

\* data_connections find_connections, the three lists of one feature
dc_find_connections(g, feature_id) ==
  LET cfg == csv_files[IdLayer[feature_id]]
  IN IF IsLine(feature_id)
     THEN LET start_ids ==
                dc_endpoint_ids(g, g[feature_id][1], cfg) \ {feature_id}
              end_ids ==
                dc_endpoint_ids(g, g[feature_id][2], cfg) \ {feature_id}
          IN [connections |-> SetToList(start_ids \cup end_ids),
              start_connections |-> SetToList(start_ids),
              end_connections |-> SetToList(end_ids)]
     ELSE dc_point_branch(g, feature_id)

\* ------------------------------------------------------------------------
\* Scoring engine (update_enedis_data/connections_scoring.py,
\* connections_core.py, connections_config.py).  Radii are carried in
\* hundredths of a metre so that the factors 0.7 and 1.5 stay integral.
\* ------------------------------------------------------------------------
max_connections_per_entity == 10
min_connections == 1

\* calculate_connection_score as the fraction num / (100 * den):
\* 0.7 * (1 - d / max_radius) + 0.2 * direction + 0.1 * type_compatibility
calculate_connection_score(g, endpoint, id, max_radius100, priority_connections) ==
  LET d == Distance(g[id], PointOf(endpoint))
      endpoint_dist == Min2(Abs(endpoint - g[id][1]), Abs(endpoint - g[id][2]))
      direction10 ==
        IF IsLine(id)
        THEN IF d > 0 /\ endpoint_dist < d
             THEN 10 - ((10 * endpoint_dist) \div d) ELSE 0
        ELSE 5
      type10 ==
        IF IdLayer[id] \in DOMAIN priority_connections
        THEN 12 - 2 * priority_connections[IdLayer[id]].priority
        ELSE 5
  IN [id |-> id,
      num |-> max_radius100 * (70 + 2 * direction10 + type10) - 7000 * d,
      den |-> max_radius100]

ScoreGreater(c1, c2) == c1.num * c2.den > c2.num * c1.den

RECURSIVE InsertByScore(_, _)
InsertByScore(c, s) ==
  IF s = <<>> THEN <<c>>
  ELSE IF ScoreGreater(c, Head(s)) THEN <<c>> \o s
  ELSE <<Head(s)>> \o InsertByScore(c, Tail(s))

RECURSIVE SortByScore(_)
\* sort_values(by=["score"], ascending=False)
SortByScore(s) ==
  IF s = <<>> THEN <<>>
  ELSE InsertByScore(Last(s), SortByScore(Front(s)))

Matches100(g, endpoint, radius100, exclude_list) ==
  LET hit == {id \in DOMAIN g :
                /\ 100 * Distance(g[id], PointOf(endpoint)) <= radius100
                /\ ~(exclude_list # {} /\ IdLayer[id] \in exclude_list)}
  IN SelectIds(AllIds, hit)

\* adaptive_radius: the base radius scaled by the local density
adjusted_radius(g, endpoint, base_radius100) ==
  LET nearby_count ==
        Cardinality({id \in DOMAIN g :
                       100 * Distance(g[id], PointOf(endpoint))
                         <= 2 * base_radius100})
  IN IF nearby_count > 20 THEN (base_radius100 * 70) \div 100
     ELSE IF nearby_count < 5 THEN (base_radius100 * 150) \div 100
     ELSE base_radius100

BestScored(g, endpoint, valid, priority_connections) ==
  SortByScore([i \in 1..Len(valid) |->
     calculate_connection_score(
       g, endpoint, valid[i].id,
       100 * priority_connections[valid[i].source_layer].radius,
       priority_connections)])[1].id

scoring_select_connection_candidates(g, endpoint, base_radius100, exclude_list, priority_connections, mono_connection, has_solo, solo_dict) ==
  LET final_radius == adjusted_radius(g, endpoint, base_radius100)
      matches == Matches100(g, endpoint, final_radius, exclude_list)
      solo_valid == ValidCandidates(g, endpoint, matches, solo_dict)
      prio_valid == ValidCandidates(g, endpoint, matches, priority_connections)
      scored == SortByScore([i \in 1..Len(matches) |->
                  calculate_connection_score(g, endpoint, matches[i],
                                             final_radius,
                                             priority_connections)])
  IN IF matches = <<>> THEN {}
     ELSE IF has_solo /\ solo_valid # <<>>
          THEN {NearestCandidate(solo_valid)}
     ELSE IF /\ mono_connection
             /\ DOMAIN priority_connections # {}
             /\ prio_valid # <<>>
          THEN {BestScored(g, endpoint, prio_valid, priority_connections)}
     ELSE {scored[i].id : i \in 1..Min2(max_connections_per_entity, Len(scored))}

\* connections_core.process_feature_worker
core_process_feature_worker(g, feature_id) ==
  LET cfg == LAYERS_CONFIG[IdLayer[feature_id]]
      select(endpoint, radius100, has_solo, solo_dict) ==
        scoring_select_connection_candidates(
          g, endpoint, radius100, cfg.exclude_connections,
          cfg.priority_connections, cfg.mono_connection_per_endpoint,
          has_solo, solo_dict) \ {feature_id}
  IN IF IsLine(feature_id)
     THEN LET start_ids == select(g[feature_id][1], 100 * cfg.radius,
                                  cfg.has_solo, cfg.solo_connection_if)
              end_ids == select(g[feature_id][2], 100 * cfg.radius,
                                cfg.has_solo, cfg.solo_connection_if)
          IN [connections |-> SetToList(start_ids \cup end_ids),
              start_connections |-> SetToList(start_ids),
              end_connections |-> SetToList(end_ids)]
     ELSE LET endpoint == g[feature_id][1]
              candidate_ids == select(endpoint, 100 * cfg.radius, FALSE, NoDict)
              larger_radius == 150 * cfg.radius
              combined == candidate_ids \cup
                          select(endpoint, larger_radius, FALSE, NoDict)
              top == SortByScore([i \in 1..Len(SetToList(combined)) |->
                       calculate_connection_score(
                         g, endpoint, SetToList(combined)[i], larger_radius,
                         cfg.priority_connections)])
              final_ids ==
                IF min_connections > Cardinality(candidate_ids)
                THEN IF Cardinality(combined) > max_connections_per_entity
                     THEN {top[i].id : i \in 1..max_connections_per_entity}
                     ELSE combined
                ELSE candidate_ids
          IN [connections |-> SetToList(final_ids),
              start_connections |-> <<>>,
              end_connections |-> <<>>]

\* ------------------------------------------------------------------------
\* compute_connections: the layers in processing order
\* ------------------------------------------------------------------------
LayerIds(g, layer_key) ==
  SelectIds(AllIds, {id \in DOMAIN g : IdLayer[id] = layer_key})

RECURSIVE InsertLayer(_, _, _)
InsertLayer(g, l, s) ==
  IF s = <<>> THEN <<l>>
  ELSE IF Len(LayerIds(g, l)) > Len(LayerIds(g, Head(s))) THEN <<l>> \o s
  ELSE <<Head(s)>> \o InsertLayer(g, l, Tail(s))

RECURSIVE SortLayers(_, _)
SortLayers(g, ls) ==
  IF ls = <<>> THEN <<>>
  ELSE InsertLayer(g, Last(ls), SortLayers(g, Front(ls)))

\* sorted(layers, key=len, reverse=True) over the non-empty layers
sorted_layers(g) ==
  SortLayers(g, SelectSeq(LayerKeys, LAMBDA l : LayerIds(g, l) # <<>>))

RECURSIVE Concat(_, _)
Concat(g, ls) ==
  IF ls = <<>> THEN <<>> ELSE LayerIds(g, Head(ls)) \o Concat(g, Tail(ls))

\* the rows of the updated layers, in iteration order
RowOrder(g) == Concat(g, sorted_layers(g))

\* ------------------------------------------------------------------------
\* clean_connections (update_enedis_data/connections_cleaning.py)
\* ------------------------------------------------------------------------
AppendNew(s, x) == IF x \in Range(s) THEN s ELSE Append(s, x)

\* nx.Graph.add_edge on insertion-ordered adjacency lists
AddEdge(adj, u, v) ==
  LET a1 == [adj EXCEPT ![u] = AppendNew(@, v)]
  IN [a1 EXCEPT ![v] = AppendNew(@, u)]

RECURSIVE AddEdges(_, _, _)
AddEdges(adj, u, conns) ==
  IF conns = <<>> THEN adj
  ELSE AddEdges(AddEdge(adj, u, Head(conns)), u, Tail(conns))

RECURSIVE BuildGraph(_, _, _)
\* G = nx.Graph() filled from the connections column, row by row
BuildGraph(adj, r, order) ==
  IF order = <<>> THEN adj
  ELSE BuildGraph(AddEdges(adj, Head(order), r[Head(order)].connections),
                  r, Tail(order))

Graph(g, r) == BuildGraph([id \in DOMAIN g |-> <<>>], r, RowOrder(g))

HasEdge(adj, u, v) == v \in Range(adj[u])

\* the (node, neighbour) pairs clean_connections marks as redundant
redundant_edges(g, adj) ==
  UNION {
    IF Len(adj[node]) < 3 THEN {}
    ELSE UNION { UNION {
           LET n1 == adj[node][i]
               n2 == adj[node][j]
               d_node_n1 == Distance(g[node], g[n1])
               d_node_n2 == Distance(g[node], g[n2])
               d_n1_n2 == Distance(g[n1], g[n2])
           IN IF ~HasEdge(adj, n1, n2) THEN {}
              ELSE IF 10 * (d_node_n1 + d_n1_n2) < 12 * d_node_n2
                   THEN {<<node, n2>>}
              ELSE IF 10 * (d_node_n2 + d_n1_n2) < 12 * d_node_n1
                   THEN {<<node, n1>>}
              ELSE {}
           : j \in (i + 1)..Len(adj[node]) } : i \in 1..Len(adj[node]) }
    : node \in DOMAIN adj }

RECURSIVE FilterRedundant(_, _, _)
FilterRedundant(conns, id, red) ==
  IF conns = <<>> THEN <<>>
  ELSE IF <<id, Head(conns)>> \notin red /\ <<Head(conns), id>> \notin red
       THEN <<Head(conns)>> \o FilterRedundant(Tail(conns), id, red)
  ELSE FilterRedundant(Tail(conns), id, red)

clean_connections(g, r) ==
  LET red == redundant_edges(g, Graph(g, r))
  IN [id \in DOMAIN r |->
        [connections |-> FilterRedundant(r[id].connections, id, red),
         start_connections |-> FilterRedundant(r[id].start_connections, id, red),
         end_connections |-> FilterRedundant(r[id].end_connections, id, red)]]

\* ------------------------------------------------------------------------
\* optimize_connections (update_enedis_data/connections_optimization.py)
\* ------------------------------------------------------------------------
BridgeThreshold == 500
EndpointThreshold == 50

UndirectedEdges(r) ==
  UNION {UNION {{<<u, r[u].connections[i]>>, <<r[u].connections[i], u>>}
                : i \in 1..Len(r[u].connections)} : u \in DOMAIN r}

RECURSIVE Closure(_, _)
Closure(S, E) ==
  LET N == S \cup {e[2] : e \in {x \in E : x[1] \in S}}
  IN IF N = S THEN S ELSE Closure(N, E)

RECURSIVE NodesOf(_, _, _)
\* G.nodes() in insertion order
NodesOf(nodes, r, order) ==
  IF order = <<>> THEN nodes
  ELSE LET withRow == AppendNew(nodes, Head(order))
           conns == r[Head(order)].connections
           AddAll[i \in 0..Len(conns)] ==
             IF i = 0 THEN withRow ELSE AppendNew(AddAll[i - 1], conns[i])
       IN NodesOf(AddAll[Len(conns)], r, Tail(order))

RECURSIVE ComponentsFrom(_, _, _)
\* nx.connected_components(G), in order of first node
ComponentsFrom(nodes, seen, E) ==
  IF nodes = <<>> THEN <<>>
  ELSE IF Head(nodes) \in seen THEN ComponentsFrom(Tail(nodes), seen, E)
  ELSE LET c == Closure({Head(nodes)}, E)
       IN <<c>> \o ComponentsFrom(Tail(nodes), seen \cup c, E)

connected_components(g, r) ==
  ComponentsFrom(NodesOf(<<>>, r, RowOrder(g)), {}, UndirectedEdges(r))

MinOf(S) == CHOOSE d \in S : \A e \in S : d <= e

FirstIn(s, S) == s[CHOOSE i \in 1..Len(s) :
                     s[i] \in S /\ \A j \in 1..(i - 1) : s[j] \notin S]

\* the first pair of minimal distance met by the double loop
closest_pair(g, comp_i, comp_j) ==
  LET min_distance ==
        MinOf({Distance(g[a], g[b]) : a \in comp_i, b \in comp_j})
      node_i == FirstIn(SetToList(comp_i),
                  {a \in comp_i :
                     \E b \in comp_j : Distance(g[a], g[b]) = min_distance})
      node_j == FirstIn(SetToList(comp_j),
                  {b \in comp_j : Distance(g[node_i], g[b]) = min_distance})
  IN [node_i |-> node_i, node_j |-> node_j, min_distance |-> min_distance]

AddConnection(r, u, v) ==
  [r EXCEPT ![u].connections = AppendNew(@, v)]

\* one pair of components: the bridge connection is added both ways
BridgePair(g, r, comp_i, comp_j) ==
  LET cp == closest_pair(g, comp_i, comp_j)
  IN IF cp.min_distance < BridgeThreshold
     THEN AddConnection(AddConnection(r, cp.node_i, cp.node_j),
                        cp.node_j, cp.node_i)
     ELSE r

RECURSIVE BridgeLoop(_, _, _, _, _)
BridgeLoop(g, r, comps, i, j) ==
  IF i > Len(comps) THEN r
  ELSE IF j > Len(comps) THEN BridgeLoop(g, r, comps, i + 1, i + 2)
  ELSE BridgeLoop(g, BridgePair(g, r, comps[i], comps[j]), comps, i, j + 1)

bridge_components(g, r) ==
  LET comps == connected_components(g, r)
  IN IF Len(comps) > 1 THEN BridgeLoop(g, r, comps, 1, 2) ELSE r

\* the feature of other_layer nearest to the endpoint, below the threshold
Nearest(g, endpoint, other_layer) ==
  LET ids == LayerIds(g, other_layer)
      near == {x \in Range(ids) :
                 Distance(g[x], PointOf(endpoint)) < EndpointThreshold}
      best == {x \in near :
                 \A y \in near : Distance(g[x], PointOf(endpoint))
                                   <= Distance(g[y], PointOf(endpoint))}
  IN IF near = {} THEN <<>> ELSE <<FirstIn(ids, best)>>

AddMissingStart(g, r, id, other_layer) ==
  LET n == Nearest(g, g[id][1], other_layer)
  IN IF n = <<>> THEN r
     ELSE LET r1 == [r EXCEPT ![id].connections = AppendNew(@, n[1]),
                              ![id].start_connections = AppendNew(@, n[1])]
          IN AddConnection(r1, n[1], id)

AddMissingEnd(g, r, id, other_layer) ==
  LET n == Nearest(g, g[id][2], other_layer)
  IN IF n = <<>> THEN r
     ELSE LET r1 == [r EXCEPT ![id].connections = AppendNew(@, n[1]),
                              ![id].end_connections = AppendNew(@, n[1])]
          IN AddConnection(r1, n[1], id)

RECURSIVE FixEndpoints(_, _, _, _)
\* the loop over the other layers for one LineString row
FixEndpoints(g, r, id, others) ==
  IF others = <<>> THEN r
  ELSE IF Head(others) = IdLayer[id] THEN FixEndpoints(g, r, id, Tail(others))
  ELSE LET r1 == IF Len(r[id].start_connections) = 0
                 THEN AddMissingStart(g, r, id, Head(others)) ELSE r
           r2 == IF Len(r1[id].end_connections) = 0
                 THEN AddMissingEnd(g, r1, id, Head(others)) ELSE r1
       IN FixEndpoints(g, r2, id, Tail(others))

RECURSIVE EndpointLoop(_, _, _)
EndpointLoop(g, r, order) ==
  IF order = <<>> THEN r
  ELSE LET id == Head(order)
           r1 == IF /\ IsLine(id)
                    /\ \/ Len(r[id].start_connections) = 0
                       \/ Len(r[id].end_connections) = 0
                 THEN FixEndpoints(g, r, id, sorted_layers(g))
                 ELSE r
       IN EndpointLoop(g, r1, Tail(order))

add_missing_endpoints(g, r) == EndpointLoop(g, r, RowOrder(g))

optimize_connections(g, r) ==
  add_missing_endpoints(g, bridge_components(g, clean_connections(g, r)))

\* ------------------------------------------------------------------------
\* The pipeline of update_enedis_data: compute_connections, layer by layer,
\* then optimize_connections
\* ------------------------------------------------------------------------
FarCoord == MaxCoord + FAR + 1
Coords == (0..MaxCoord) \cup {FarCoord}
LineLengths == {1, 2}

PointGeoms == {<<p, p>> : p \in Coords}
LineGeoms == {<<a, a + n>> : a \in Coords, n \in LineLengths}

Casts ==
  {{"postes_source_1", "postes_electrique_1", "reseau_bt_1", "reseau_bt_2"},
   {"postes_source_1", "postes_electrique_1", "reseau_bt_1",
    "reseau_souterrain_hta_1"}}

Stores ==
  UNION {{[id \in cast |->
             IF id = "postes_source_1" THEN p1
             ELSE IF id = "postes_electrique_1" THEN p2
             ELSE IF id = "reseau_bt_1" THEN l1 ELSE l2]
          : p1 \in PointGeoms, p2 \in PointGeoms,
            l1 \in LineGeoms, l2 \in LineGeoms} : cast \in Casts}

current_layer == sorted_layers(geometry)[layer_idx]

\* no endpoint search has been probed; the rules are those of LAYERS_CONFIG
RulesIdle ==
  /\ rule_cfg = <<>>
  /\ probe = <<>>

\* no wrapper call, search, pipeline run or batch loop is under way
StepIdle ==
  /\ retry_call = <<>>
  /\ search = <<>>
  /\ pipeline = <<>>
  /\ grid_run = <<>>

\* GridProcessor.__init__: nothing cached, nothing saved
GridIdle ==
  /\ connections_cache = <<>>
  /\ site_results = {}

\* find_closest_path has not been called
FinderIdle ==
  /\ network_lookup = <<>>
  /\ point = 0
  /\ closest_elements = <<>>
  /\ attempt = 0
  /\ path = <<>>
  /\ success = FALSE
  /\ result_info = <<>>
  /\ results = <<>>

Init ==
  /\ StepIdle
  /\ geometry \in Stores
  /\ FinderIdle
  /\ GridIdle
  /\ RulesIdle
  /\ rows = [id \in DOMAIN geometry |-> EmptyResult]
  /\ pc = "submit"
  /\ layer_idx = 1
  /\ pending = {}
  /\ all_results = <<>>
  /\ raised = {}

\* find_connections: one future per row of the layer is submitted
SubmitFutures ==
  /\ pc = "submit"
  /\ UNCHANGED grid_vars
  /\ UNCHANGED step_vars
  /\ UNCHANGED rules_vars
  /\ pending' = Range(LayerIds(geometry, current_layer))
  /\ all_results' = <<>>
  /\ pc' = "collect"
  /\ UNCHANGED <<geometry, rows, layer_idx, raised>>
  /\ UNCHANGED finder_vars

\* find_connections: as_completed yields the future of feature id next;
\* future.result() hands back the worker's lists, which are appended to
\* all_results, or raises, and three empty lists are appended
AsCompletedYield(id) ==
  /\ pc = "collect"
  /\ UNCHANGED grid_vars
  /\ UNCHANGED step_vars
  /\ UNCHANGED rules_vars
  /\ id \in pending
  /\ \E raises \in BOOLEAN :
       /\ raises => Cardinality(raised) < MaxRaised
       /\ all_results' =
            Append(all_results,
                   IF raises THEN EmptyResult
                   ELSE process_feature_worker(geometry, id,
                                               MaxConnectionsOf(current_layer)))
       /\ raised' = IF raises THEN raised \cup {id} ELSE raised
  /\ pending' = pending \ {id}
  /\ UNCHANGED <<geometry, rows, pc, layer_idx>>
  /\ UNCHANGED finder_vars

\* find_connections: the columns are filled from all_results in list order,
\* then validate_connections rewrites every row
AssignResults(g, r, layer_key, result_list) ==
  LET ids == LayerIds(g, layer_key)
  IN [id \in DOMAIN r |->
        IF IdLayer[id] = layer_key
        THEN LET k == CHOOSE i \in 1..Len(ids) : ids[i] = id
             IN validate_row(g, id, result_list[k])
        ELSE r[id]]

find_connections_return ==
  /\ pc = "collect"
  /\ UNCHANGED grid_vars
  /\ UNCHANGED step_vars
  /\ UNCHANGED rules_vars
  /\ pending = {}
  /\ rows' = AssignResults(geometry, rows, current_layer, all_results)
  /\ all_results' = <<>>
  /\ IF layer_idx < Len(sorted_layers(geometry))
     THEN layer_idx' = layer_idx + 1 /\ pc' = "submit"
     ELSE layer_idx' = layer_idx /\ pc' = "computed"
  /\ UNCHANGED <<geometry, pending, raised>>
  /\ UNCHANGED finder_vars

Optimize ==
  /\ pc = "computed"
  /\ UNCHANGED grid_vars
  /\ UNCHANGED step_vars
  /\ UNCHANGED rules_vars
  /\ rows' = optimize_connections(geometry, rows)
  /\ pc' = "optimized"
  /\ UNCHANGED <<geometry, layer_idx, pending, all_results, raised>>
  /\ UNCHANGED finder_vars

Next ==
  \/ SubmitFutures
  \/ \E id \in IdSet : AsCompletedYield(id)
  \/ find_connections_return
  \/ Optimize

Spec == Init /\ [][Next]_vars

\* ------------------------------------------------------------------------
\* The scoring engine run over the layers: connections_core.find_connections
\* is called once per layer with the layer's configured radius, and
\* executor.map hands the results back in input order
\* ------------------------------------------------------------------------
CoreInit ==
  /\ StepIdle
  /\ geometry \in Stores
  /\ FinderIdle
  /\ GridIdle
  /\ RulesIdle
  /\ rows = [id \in DOMAIN geometry |-> EmptyResult]
  /\ pc = "core"
  /\ layer_idx = 1
  /\ pending = {}
  /\ all_results = <<>>
  /\ raised = {}

core_find_connections ==
  /\ pc = "core"
  /\ UNCHANGED grid_vars
  /\ UNCHANGED step_vars
  /\ UNCHANGED rules_vars
  /\ rows' = [id \in DOMAIN rows |->
                IF IdLayer[id] = current_layer
                THEN core_process_feature_worker(geometry, id)
                ELSE rows[id]]
  /\ IF layer_idx < Len(sorted_layers(geometry))
     THEN layer_idx' = layer_idx + 1 /\ pc' = pc
     ELSE layer_idx' = layer_idx /\ pc' = "core_done"
  /\ UNCHANGED <<geometry, pending, all_results, raised>>
  /\ UNCHANGED finder_vars

CoreNext == core_find_connections

SpecCore == CoreInit /\ [][CoreNext]_vars

\* ------------------------------------------------------------------------
\* network_path_finder: loader.py, geo.py, pathfinding.py, finder.py
\* ------------------------------------------------------------------------
SOURCE_SUBSTATION_LAYER == "postes_source"
BT_LAYERS == <<"reseau_bt", "reseau_souterrain_bt">>
ALL_LAYERS ==
  <<"postes_source", "postes_electrique", "position_geographique",
    "reseau_souterrain_bt", "reseau_bt", "reseau_hta",
    "reseau_souterrain_hta">>
MAX_BT_DISTANCE == 10000
max_elements == 20
BridgingMaxDistance == 2000
HopMaxDistance == 5000
max_hops == 3

\* the characters a Python loop yields when it iterates over an id string
CharsOf(s) ==
  IF s = "postes_source_1" THEN
    <<"p", "o", "s", "t", "e", "s", "_", "s", "o", "u", "r", "c", "e", "_", "1">>
  ELSE IF s = "postes_electrique_1" THEN
    <<"p", "o", "s", "t", "e", "s", "_", "e", "l", "e", "c", "t", "r", "i", "q", "u", "e", "_", "1">>
  ELSE IF s = "reseau_bt_1" THEN
    <<"r", "e", "s", "e", "a", "u", "_", "b", "t", "_", "1">>
  ELSE IF s = "reseau_bt_2" THEN
    <<"r", "e", "s", "e", "a", "u", "_", "b", "t", "_", "2">>
  ELSE
    <<"r", "e", "s", "e", "a", "u", "_", "s", "o", "u", "t", "e", "r", "r", "a", "i", "n", "_", "h", "t", "a", "_", "1">>

\* load_geojson_layers: the rows in the order of ALL_LAYERS, file by file
loaded_ids(g) == Concat(g, ALL_LAYERS)

\* build_network_lookup: a one-element connections list is replaced by its
\* element, a string
unwrap(connections) ==
  IF Len(connections) = 1
  THEN [is_list |-> FALSE, value |-> connections]
  ELSE [is_list |-> TRUE, value |-> connections]

build_network_lookup(g, r) ==
  [id \in DOMAIN g |->
     [layer |-> IdLayer[id],
      connections |-> unwrap(r[id].connections),
      feature |-> r[id]]]

\* "for conn_id in ...[connections]": the items the loop yields
Iterate(connections) ==
  IF connections.is_list THEN connections.value
  ELSE CharsOf(connections.value[1])

\* "conn_id in ...[connections]" as Python evaluates it on a list or on an
\* id string (no id of the store is a proper substring of another)
Holds(connections, conn_id) == conn_id \in Range(connections.value)

\* the graph the searches traverse
lookup_adjacency(lookup) ==
  [id \in DOMAIN lookup |-> Iterate(lookup[id].connections)]

\* find_path_with_relaxed_connections: expanded_network
expanded_adjacency(lookup) ==
  [id \in DOMAIN lookup |->
     SetToList(Range(Iterate(lookup[id].connections))
                 \cup Range(lookup[id].feature.start_connections)
                 \cup Range(lookup[id].feature.end_connections))]

RECURSIVE Unvisited(_, _, _)
\* the neighbours a BFS step enqueues, in iteration order
Unvisited(items, known, visited) ==
  IF items = <<>> THEN <<>>
  ELSE IF Head(items) \in known /\ Head(items) \notin visited
       THEN <<Head(items)>>
              \o Unvisited(Tail(items), known, visited \cup {Head(items)})
       ELSE Unvisited(Tail(items), known, visited)

RECURSIVE bfs(_, _, _, _)
\* the BFS loop shared by the searches: queue of id paths, goal test on the
\* popped node; <<>> stands for None
bfs(adj, queue, visited, goals) ==
  IF queue = <<>> THEN <<>>
  ELSE LET id_path == Head(queue)
           current_id == Last(id_path)
           new == Unvisited(adj[current_id], DOMAIN adj, visited)
       IN IF current_id \in goals THEN id_path
          ELSE bfs(adj,
                   Tail(queue) \o [i \in 1..Len(new) |-> Append(id_path, new[i])],
                   visited \cup Range(new), goals)

Entry(layer, id) == [layer |-> layer, id |-> <<id>>]

\* ("bridge", f"{id1}->{id2}")
BridgeEntry(id1, id2) == [layer |-> "bridge", id |-> <<id1, "->", id2>>]

with_layers(lookup, id_path) ==
  [i \in 1..Len(id_path) |-> Entry(lookup[id_path[i]].layer, id_path[i])]

Sources(lookup) ==
  {id \in DOMAIN lookup : lookup[id].layer = SOURCE_SUBSTATION_LAYER}

find_path_to_source(start_id, lookup) ==
  IF start_id \notin DOMAIN lookup THEN <<>>
  ELSE with_layers(lookup, bfs(lookup_adjacency(lookup), <<(<<start_id>>)>>,
                               {start_id}, Sources(lookup)))

find_path_from_node_to_source(start_id, lookup) ==
  IF start_id \notin DOMAIN lookup THEN <<>>
  ELSE with_layers(lookup, bfs(lookup_adjacency(lookup), <<(<<start_id>>)>>,
                               {start_id}, Sources(lookup)))

find_path_to_node(start_id, target_id, lookup) ==
  IF start_id \notin DOMAIN lookup THEN <<>>
  ELSE with_layers(lookup, bfs(lookup_adjacency(lookup), <<(<<start_id>>)>>,
                               {start_id}, {target_id}))

find_path_with_relaxed_connections(start_id, lookup) ==
  IF start_id \notin DOMAIN lookup THEN <<>>
  ELSE with_layers(lookup, bfs(expanded_adjacency(lookup), <<(<<start_id>>)>>,
                               {start_id}, Sources(lookup)))

RECURSIVE component_bfs(_, _, _)
component_bfs(adj, queue, component) ==
  IF queue = <<>> THEN component
  ELSE LET current_id == Head(queue)
           new == IF current_id \in DOMAIN adj
                  THEN Unvisited(adj[current_id], DOMAIN adj, component)
                  ELSE <<>>
       IN component_bfs(adj, Tail(queue) \o new, component \cup Range(new))

\* NetworkBridger._get_connected_component
_get_connected_component(start_id, lookup) ==
  component_bfs(lookup_adjacency(lookup), <<start_id>>, {start_id})

\* NetworkBridger.build_components: visited is never added to, so every node
\* of the lookup starts a component; components[k] belongs to the k-th node
build_components(g, lookup) ==
  [k \in 1..Len(loaded_ids(g)) |->
     _get_connected_component(loaded_ids(g)[k], lookup)]

\* component_mapping[n]: the id of the last component that holds n
component_mapping(g, lookup, n) ==
  LET components == build_components(g, lookup)
      holding == {k \in 1..Len(components) : n \in components[k]}
  IN CHOOSE k \in holding : \A j \in holding : j <= k

RECURSIVE closest_in(_, _, _, _)
\* the first pair of least distance, id1 from ids1 and id2 from ids2, as
\* <<id1, id2, distance>>; <<>> when a list is empty
closest_in(g, ids1, ids2, best) ==
  IF ids1 = <<>> \/ ids2 = <<>> THEN best
  ELSE LET id1 == Head(ids1)
           row == [j \in 1..Len(ids2) |-> Distance(g[id1], g[ids2[j]])]
           m == MinOf(Range(row))
           j1 == CHOOSE j \in 1..Len(ids2) :
                   row[j] = m /\ \A i \in 1..(j - 1) : row[i] # m
           next == IF best = <<>> \/ m < best[3]
                   THEN <<id1, ids2[j1], m>> ELSE best
       IN closest_in(g, Tail(ids1), ids2, next)

\* NetworkBridger.find_closest_elements_between_components
find_closest_elements_between_components(g, comp1_ids, comp2_ids, max_distance) ==
  LET comp1_geoms == SelectIds(loaded_ids(g), comp1_ids)
      comp2_geoms == SelectIds(loaded_ids(g), comp2_ids \ comp1_ids)
      best == closest_in(g, comp1_geoms, comp2_geoms, <<>>)
  IN IF best # <<>> /\ best[3] <= max_distance THEN best ELSE <<>>

bridged_path_unlabelled(lookup, path_to_bridge1, bridge_id1, bridge_id2, path_from_bridge2) ==
  Front(path_to_bridge1)
    \o <<Entry(lookup[bridge_id1].layer, bridge_id1),
         Entry(lookup[bridge_id2].layer, bridge_id2)>>
    \o Tail(path_from_bridge2)

\* find_path_with_bridging: the path through one bridge
bridged_path(lookup, path_to_bridge1, bridge_id1, bridge_id2, path_from_bridge2) ==
  Front(path_to_bridge1)
    \o <<Entry(lookup[bridge_id1].layer, bridge_id1),
         BridgeEntry(bridge_id1, bridge_id2),
         Entry(lookup[bridge_id2].layer, bridge_id2)>>
    \o Tail(path_from_bridge2)

RECURSIVE bridge_to_sources(_, _, _, _, _)
\* find_path_with_bridging: the loop over source_components
bridge_to_sources(g, lookup, start_id, start_component_id, source_components) ==
  IF source_components = <<>> THEN <<>>
  ELSE LET components == build_components(g, lookup)
           source_comp_id == Head(source_components)
           bridge_info ==
             find_closest_elements_between_components(
               g, components[start_component_id], components[source_comp_id],
               BridgingMaxDistance)
           path_to_bridge1 == find_path_to_node(start_id, bridge_info[1], lookup)
           path_from_bridge2 ==
             find_path_from_node_to_source(bridge_info[2], lookup)
           rest == bridge_to_sources(g, lookup, start_id, start_component_id,
                                     Tail(source_components))
       IN IF source_comp_id = start_component_id THEN rest
          ELSE IF bridge_info = <<>> THEN rest
          ELSE IF path_to_bridge1 # <<>> /\ path_from_bridge2 # <<>>
               THEN bridged_path(lookup, path_to_bridge1, bridge_info[1],
                                 bridge_info[2], path_from_bridge2)
          ELSE rest

find_path_with_bridging(g, start_id, lookup) ==
  LET direct_path == find_path_to_source(start_id, lookup)
      components == build_components(g, lookup)
      source_components ==
        SelectIds([k \in 1..Len(components) |-> k],
                  {k \in 1..Len(components) :
                     components[k] \cap Sources(lookup) # {}})
  IN IF direct_path # <<>> THEN direct_path
     ELSE IF start_id \notin DOMAIN lookup THEN <<>>
     ELSE IF source_components = <<>> THEN <<>>
     ELSE bridge_to_sources(g, lookup, start_id,
                            component_mapping(g, lookup, start_id),
                            source_components)

RECURSIVE hop_loop(_, _, _, _, _)
\* find_path_with_multiple_hops: the iterations hop .. max_hops - 1
hop_loop(g, lookup, current_id, full_path, hop) ==
  IF hop >= max_hops THEN <<>>
  ELSE LET path_to_source == find_path_from_node_to_source(current_id, lookup)
           current_component == _get_connected_component(current_id, lookup)
           other_elements == DOMAIN lookup \ current_component
           bridge_info ==
             find_closest_elements_between_components(
               g, {current_id}, other_elements, HopMaxDistance)
           next_id == bridge_info[2]
       IN IF path_to_source # <<>> THEN full_path \o Tail(path_to_source)
          ELSE IF other_elements = {} THEN <<>>
          ELSE IF bridge_info = <<>> THEN <<>>
          ELSE hop_loop(g, lookup, next_id,
                        full_path \o <<BridgeEntry(current_id, next_id),
                                       Entry(lookup[next_id].layer, next_id)>>,
                        hop + 1)

find_path_with_multiple_hops(g, start_layer, start_id, lookup) ==
  hop_loop(g, lookup, start_id, <<Entry(start_layer, start_id)>>, 0)

\* find_closest_bt_elements: the tuples (distance, layer, id) in sorted
\* order, the nearest max_elements of them
RECURSIVE InsertElement(_, _)
ElementLess(e1, e2) ==
  LET rank(id) == CHOOSE i \in 1..Len(AllIds) : AllIds[i] = id
      layer_rank(l) == CHOOSE i \in 1..Len(BT_LAYERS) : BT_LAYERS[i] = l
  IN IF e1.distance # e2.distance THEN e1.distance < e2.distance
     ELSE IF e1.layer # e2.layer
          THEN layer_rank(e1.layer) < layer_rank(e2.layer)
     ELSE rank(e1.id) < rank(e2.id)

InsertElement(e, s) ==
  IF s = <<>> THEN <<e>>
  ELSE IF ElementLess(e, Head(s)) THEN <<e>> \o s
  ELSE <<Head(s)>> \o InsertElement(e, Tail(s))

RECURSIVE SortElements(_)
SortElements(s) ==
  IF s = <<>> THEN <<>>
  ELSE InsertElement(Last(s), SortElements(Front(s)))

find_closest_bt_elements_unsorted(g, query) ==
  LET bt_ids == Concat(g, BT_LAYERS)
  IN [i \in 1..Len(bt_ids) |->
        [distance |-> Distance(g[bt_ids[i]], PointOf(query)),
         layer |-> IdLayer[bt_ids[i]],
         id |-> bt_ids[i]]]

find_closest_bt_elements(g, query) ==
  LET bt_ids == Concat(g, BT_LAYERS)
      all_distances ==
        [i \in 1..Len(bt_ids) |->
           [distance |-> Distance(g[bt_ids[i]], PointOf(query)),
            layer |-> IdLayer[bt_ids[i]],
            id |-> bt_ids[i]]]
      in_range ==
        SelectSeq(all_distances,
                  LAMBDA e : e.distance <= 1000 * MAX_BT_DISTANCE)
  IN Take(SortElements(in_range), max_elements)

\* find_path_with_fallbacks, as one function
find_path_with_fallbacks(g, start_layer, start_id, lookup) ==
  LET direct == find_path_to_source(start_id, lookup)
      relaxed == find_path_with_relaxed_connections(start_id, lookup)
      bridging == find_path_with_bridging(g, start_id, lookup)
      multi_hop == find_path_with_multiple_hops(g, start_layer, start_id, lookup)
  IN IF direct # <<>> THEN direct
     ELSE IF relaxed # <<>> THEN relaxed
     ELSE IF bridging # <<>> THEN bridging
     ELSE multi_hop

after_failure_skipping(strategy) ==
  IF strategy = "direct" THEN "bridging"
  ELSE IF strategy = "relaxed" THEN "bridging"
  ELSE IF strategy = "bridging" THEN "multi_hop"
  ELSE "failed"

\* find_path_with_fallbacks: where control goes when a strategy returned None
after_failure(strategy) ==
  IF strategy = "direct" THEN "relaxed"
  ELSE IF strategy = "relaxed" THEN "bridging"
  ELSE IF strategy = "bridging" THEN "multi_hop"
  ELSE "failed"

\* find_closest_path: display_path
display_path(p) == SelectSeq(p, LAMBDA e : e.layer # "bridge")

\* ------------------------------------------------------------------------
\* The path finder run on the files written by data_connections
\* ------------------------------------------------------------------------
PathCasts ==
  {{"postes_source_1", "postes_electrique_1", "reseau_bt_1", "reseau_bt_2"},
   {"postes_electrique_1", "reseau_bt_1", "reseau_bt_2"},
   {"postes_source_1", "postes_electrique_1"},
   {}}

PathStores ==
  UNION {{[id \in cast |->
             IF id = "postes_source_1" THEN p1
             ELSE IF id = "postes_electrique_1" THEN p2
             ELSE IF id = "reseau_bt_1" THEN l1 ELSE l2]
          : p1 \in PointGeoms, p2 \in PointGeoms,
            l1 \in LineGeoms, l2 \in LineGeoms} : cast \in PathCasts}

PathInit ==
  /\ StepIdle
  /\ geometry \in PathStores
  /\ rows = [id \in DOMAIN geometry |-> EmptyResult]
  /\ pc = "persist"
  /\ layer_idx = 1
  /\ pending = {}
  /\ all_results = <<>>
  /\ raised = {}
  /\ FinderIdle
  /\ GridIdle
  /\ RulesIdle

engine_vars == <<layer_idx, pending, all_results, raised>>

\* data_connections main: every layer is given its three columns and saved
data_connections_main ==
  /\ pc = "persist"
  /\ UNCHANGED grid_vars
  /\ UNCHANGED step_vars
  /\ UNCHANGED rules_vars
  /\ rows' = [id \in DOMAIN geometry |-> dc_find_connections(geometry, id)]
  /\ pc' = "query"
  /\ UNCHANGED <<geometry, engine_vars, finder_vars>>

\* find_closest_path up to the candidate loop
find_closest_path_start(query) ==
  /\ pc = "query"
  /\ UNCHANGED grid_vars
  /\ UNCHANGED step_vars
  /\ UNCHANGED rules_vars
  /\ point' = query
  /\ closest_elements' = find_closest_bt_elements(geometry, query)
  /\ IF closest_elements' = <<>>
     THEN /\ pc' = "returned_none"
          /\ UNCHANGED <<network_lookup, attempt>>
     ELSE /\ network_lookup' = build_network_lookup(geometry, rows)
          /\ attempt' = 1
          /\ pc' = IF closest_elements'[1].distance > 1000 * MAX_BT_DISTANCE
                   THEN "report" ELSE "direct"
  /\ UNCHANGED <<geometry, rows, engine_vars, path, success, result_info,
                 results>>

\* find_path_with_fallbacks: strategy 1, direct path
try_direct ==
  /\ pc = "direct"
  /\ UNCHANGED grid_vars
  /\ UNCHANGED step_vars
  /\ UNCHANGED rules_vars
  /\ path' = find_path_to_source(closest_elements[attempt].id, network_lookup)
  /\ pc' = IF path' # <<>> THEN "found" ELSE after_failure("direct")
  /\ UNCHANGED <<geometry, rows, engine_vars, network_lookup, point,
                 closest_elements, attempt, success, result_info, results>>

\* find_path_with_fallbacks: strategy 2, relaxed search
try_relaxed ==
  /\ pc = "relaxed"
  /\ UNCHANGED grid_vars
  /\ UNCHANGED step_vars
  /\ UNCHANGED rules_vars
  /\ path' = find_path_with_relaxed_connections(
                closest_elements[attempt].id, network_lookup)
  /\ pc' = IF path' # <<>> THEN "found" ELSE after_failure("relaxed")
  /\ UNCHANGED <<geometry, rows, engine_vars, network_lookup, point,
                 closest_elements, attempt, success, result_info, results>>

\* find_path_with_fallbacks: strategy 3, bridging between components
try_bridging ==
  /\ pc = "bridging"
  /\ UNCHANGED grid_vars
  /\ UNCHANGED step_vars
  /\ UNCHANGED rules_vars
  /\ path' = find_path_with_bridging(geometry, closest_elements[attempt].id,
                                   network_lookup)
  /\ pc' = IF path' # <<>> THEN "found" ELSE after_failure("bridging")
  /\ UNCHANGED <<geometry, rows, engine_vars, network_lookup, point,
                 closest_elements, attempt, success, result_info, results>>

\* find_path_with_fallbacks: strategy 4, multiple hops
try_multi_hop ==
  /\ pc = "multi_hop"
  /\ UNCHANGED grid_vars
  /\ UNCHANGED step_vars
  /\ UNCHANGED rules_vars
  /\ path' = find_path_with_multiple_hops(
                geometry, closest_elements[attempt].layer,
                closest_elements[attempt].id, network_lookup)
  /\ pc' = IF path' # <<>> THEN "found" ELSE after_failure("multi_hop")
  /\ UNCHANGED <<geometry, rows, engine_vars, network_lookup, point,
                 closest_elements, attempt, success, result_info, results>>

\* find_closest_path: "if path:" in the candidate loop
candidate_succeeded ==
  /\ pc = "found"
  /\ UNCHANGED grid_vars
  /\ UNCHANGED step_vars
  /\ UNCHANGED rules_vars
  /\ result_info' = [closest_info |-> closest_elements[attempt],
                     path |-> display_path(path)]
  /\ success' = TRUE
  /\ pc' = "report"
  /\ UNCHANGED <<geometry, rows, engine_vars, network_lookup, point,
                 closest_elements, attempt, path, results>>

\* find_closest_path: "else:" in the candidate loop, on to the next one
candidate_failed ==
  /\ pc = "failed"
  /\ UNCHANGED grid_vars
  /\ UNCHANGED step_vars
  /\ UNCHANGED rules_vars
  /\ IF /\ attempt < Len(closest_elements)
        /\ closest_elements[attempt + 1].distance <= 1000 * MAX_BT_DISTANCE
     THEN attempt' = attempt + 1 /\ pc' = "direct"
     ELSE attempt' = attempt /\ pc' = "report"
  /\ UNCHANGED <<geometry, rows, engine_vars, network_lookup, point,
                 closest_elements, path, success, result_info, results>>

\* find_closest_path: the results dictionary
report ==
  /\ pc = "report"
  /\ UNCHANGED grid_vars
  /\ UNCHANGED step_vars
  /\ UNCHANGED rules_vars
  /\ results' =
       IF success /\ result_info # <<>>
       THEN [success |-> success,
             closest_bt_element |-> <<result_info.closest_info>>,
             path_to_source |-> result_info.path]
       ELSE [success |-> success,
             closest_bt_element |-> <<closest_elements[1]>>]
  /\ pc' = "done"
  /\ UNCHANGED <<geometry, rows, engine_vars, network_lookup, point,
                 closest_elements, attempt, path, success, result_info>>

PathNext ==
  \/ data_connections_main
  \/ \E query \in Coords : find_closest_path_start(query)
  \/ try_direct
  \/ try_relaxed
  \/ try_bridging
  \/ try_multi_hop
  \/ candidate_succeeded
  \/ candidate_failed
  \/ report

SpecPath == PathInit /\ [][PathNext]_vars

\* ------------------------------------------------------------------------
\* enepro_site_orange_analysis: GridProcessor over the warehouse table, whose
\* rows (id, connections, layer) are the saved connection columns
\* ------------------------------------------------------------------------
max_depth == 10
exploration_limit == 50
poste_source_layer == "postes_source"
bt_layers == {"reseau_bt", "reseau_souterrain_bt"}

\* pathfinding.parse_connections: the fields of the stored string, empty
\* fields dropped
parse_connections(connections_str) ==
  SelectSeq(connections_str, LAMBDA conn : conn # "")

\* data_processing.process_connections_batch over the rows the connections
\* query returns for element_ids
fetch_connections_batch(table, element_ids) ==
  [id \in element_ids \cap DOMAIN table |->
     [connections |-> parse_connections(table[id].connections),
      layer |-> IdLayer[id]]]

\* pathfinding.collect_elements_to_query: the while loop
RECURSIVE collect_loop(_, _, _)
collect_loop(temp_queue, temp_visited, cache) ==
  IF temp_queue = <<>> \/ Cardinality(temp_visited) >= exploration_limit
  THEN temp_visited
  ELSE LET current_id == Head(temp_queue)
       IN IF current_id \in temp_visited
          THEN collect_loop(Tail(temp_queue), temp_visited, cache)
          ELSE collect_loop(
                 Tail(temp_queue) \o
                   (IF current_id \in DOMAIN cache
                    THEN cache[current_id].connections ELSE <<>>),
                 temp_visited \cup {current_id}, cache)

collect_elements_to_query(start_id, cache) ==
  collect_loop(<<start_id>>, {}, cache)

\* pathfinding.find_path_bfs: the while loop; the result is (source, path),
\* source <<>> standing for None
RECURSIVE find_path_bfs_loop(_, _, _, _, _)
find_path_bfs_loop(queue, visited, cache, target_layer, depth) ==
  IF queue = <<>> THEN [source |-> <<>>, path |-> <<>>]
  ELSE LET current_id == Head(queue).id
           id_path == Head(queue).path
           seen == visited \cup {current_id}
       IN IF Len(id_path) > depth \/ current_id \in visited
          THEN find_path_bfs_loop(Tail(queue), visited, cache, target_layer,
                                  depth)
          ELSE IF current_id \notin DOMAIN cache
          THEN find_path_bfs_loop(Tail(queue), seen, cache, target_layer,
                                  depth)
          ELSE IF cache[current_id].layer = target_layer
          THEN [source |-> <<current_id>>, path |-> id_path]
          ELSE LET conns == SelectSeq(cache[current_id].connections,
                                      LAMBDA c : c \notin seen)
               IN find_path_bfs_loop(
                    Tail(queue) \o
                      [i \in 1..Len(conns) |->
                         [id |-> conns[i], path |-> Append(id_path, conns[i])]],
                    seen, cache, target_layer, depth)

find_path_bfs(start_id, cache, target_layer, depth) ==
  find_path_bfs_loop(<<[id |-> start_id, path |-> <<start_id>>]>>, {}, cache,
                     target_layer, depth)

\* GridProcessor.find_path_to_poste: the cache after the call
cache_after(table, cache, start_id) ==
  LET elements_needed == collect_elements_to_query(start_id, cache)
      new_elements == elements_needed \ DOMAIN cache
      batch_connections == fetch_connections_batch(table, new_elements)
  IN [id \in DOMAIN cache \cup DOMAIN batch_connections |->
        IF id \in DOMAIN batch_connections THEN batch_connections[id]
        ELSE cache[id]]

\* data_processing.create_site_result
create_site_result(entry_point, found) ==
  [entry_point_id |-> entry_point,
   actual_poste_source |-> found.source,
   path_elements |-> found.path,
   path_length |-> Len(found.path)]

\* GridProcessor.process_site for a site whose closest_bt_id is start_id
process_site(start_id) ==
  /\ pc = "query"
  /\ start_id \in DOMAIN geometry
  /\ IdLayer[start_id] \in bt_layers
  /\ connections_cache' = cache_after(rows, connections_cache, start_id)
  /\ site_results' =
       site_results \cup
         {create_site_result(start_id,
            find_path_bfs(start_id, connections_cache', poste_source_layer,
                          max_depth))}
  /\ UNCHANGED <<geometry, rows, pc, engine_vars, finder_vars>>
  /\ UNCHANGED rules_vars
  /\ UNCHANGED step_vars

GridNext ==
  \/ data_connections_main
  \/ \E start_id \in IdSet : process_site(start_id)

SpecGrid == PathInit /\ [][GridNext]_vars

\* ------------------------------------------------------------------------
\* The endpoint searches as functions of the layer rules: the parameters
\* init_worker stores (base_radius, exclude_list, priority_connections,
\* mono_connection) and solo_dict are drawn from a set of rule records, and
\* both engines are applied to an endpoint of the line reseau_bt_1
\* ------------------------------------------------------------------------
NearElectrique ==
  [l \in {"postes_electrique"} |-> [priority |-> 1, radius |-> CLOSE - 1]]

RuleTables == {NoDict, PriorityTable, NearElectrique}

RuleConfigs ==
  {[radius |-> CLOSE,
    exclude_connections |-> exclude,
    priority_connections |-> priority,
    mono_connection_per_endpoint |-> mono,
    has_solo |-> solo # NoDict,
    solo_connection_if |-> solo] :
     exclude \in {{}, {"reseau_bt"}}, priority \in RuleTables,
     mono \in BOOLEAN, solo \in RuleTables}

RuleStores ==
  {[id \in {"postes_source_1", "postes_electrique_1", "reseau_bt_1"} |->
      IF id = "postes_source_1" THEN p1
      ELSE IF id = "postes_electrique_1" THEN p2 ELSE l1]
   : p1 \in PointGeoms, p2 \in PointGeoms, l1 \in LineGeoms}

RulesInit ==
  /\ StepIdle
  /\ geometry \in RuleStores
  /\ rule_cfg \in RuleConfigs
  /\ probe = <<>>
  /\ rows = [id \in DOMAIN geometry |-> EmptyResult]
  /\ pc = "rules"
  /\ layer_idx = 1
  /\ pending = {}
  /\ all_results = <<>>
  /\ raised = {}
  /\ FinderIdle
  /\ GridIdle

\* the searches of process_feature_worker and of data_connections
\* find_connections for endpoint k of the LineString feature_id
probe_endpoint(feature_id, k, max_connections) ==
  /\ pc = "rules"
  /\ feature_id \in DOMAIN geometry
  /\ IsLine(feature_id)
  /\ probe' =
       [feature_id |-> feature_id,
        endpoint |-> geometry[feature_id][k],
        max_connections |-> max_connections,
        base |-> _search_with_radius(
                   geometry, geometry[feature_id][k], rule_cfg.radius,
                   rule_cfg.exclude_connections, rule_cfg.priority_connections,
                   rule_cfg.mono_connection_per_endpoint, rule_cfg.has_solo,
                   rule_cfg.solo_connection_if, max_connections),
        candidates |-> select_connection_candidates(
                         geometry, geometry[feature_id][k], rule_cfg,
                         rule_cfg.has_solo, rule_cfg.solo_connection_if,
                         max_connections),
        dc_ids |-> dc_endpoint_ids(geometry, geometry[feature_id][k],
                                   rule_cfg)]
  /\ UNCHANGED <<geometry, rows, pc, engine_vars, finder_vars, rule_cfg>>
  /\ UNCHANGED grid_vars
  /\ UNCHANGED step_vars

RulesNext ==
  \E feature_id \in IdSet, k \in {1, 2}, max_connections \in {1, 60} :
    probe_endpoint(feature_id, k, max_connections)

SpecRules == RulesInit /\ [][RulesNext]_vars

\* the candidate pool of the probed endpoint at the base radius
probe_pool ==
  Matches(geometry, probe.endpoint, rule_cfg.radius,
          rule_cfg.exclude_connections)

\* the pool members of the solo table within their solo radius
probe_solo_valid ==
  ValidCandidates(geometry, probe.endpoint, probe_pool,
                  rule_cfg.solo_connection_if)

\* the pool members of the priority table within their priority radius
probe_priority_valid ==
  ValidCandidates(geometry, probe.endpoint, probe_pool,
                  rule_cfg.priority_connections)

\* ------------------------------------------------------------------------
\* The direct searches on a chain of features: entries lines, the last of
\* them listing a postes_source feature, and a dead-end line on the first
\* ------------------------------------------------------------------------
ChainNames ==
  <<"reseau_bt_1", "reseau_bt_2", "reseau_bt_3", "reseau_bt_4",
    "reseau_bt_5", "reseau_bt_6", "reseau_bt_7", "reseau_bt_8",
    "reseau_bt_9", "reseau_bt_10", "reseau_bt_11", "reseau_bt_12",
    "reseau_bt_13", "reseau_bt_14", "reseau_bt_15", "reseau_bt_16">>

chain_source == "postes_source_1"
chain_spur == "reseau_souterrain_bt_1"

\* the files of a chain whose walk from reseau_bt_1 to the source has
\* entries entries: id -> layer, connections
chain_table(entries) ==
  LET lines == {ChainNames[k] : k \in 1..(entries - 1)}
      index(id) == CHOOSE k \in 1..(entries - 1) : ChainNames[k] = id
  IN [id \in lines \cup {chain_source, chain_spur} |->
        IF id = chain_source
        THEN [layer |-> "postes_source",
              connections |-> <<ChainNames[entries - 1]>>]
        ELSE IF id = chain_spur
        THEN [layer |-> "reseau_souterrain_bt",
              connections |-> <<ChainNames[1]>>]
        ELSE [layer |-> "reseau_bt",
              connections |->
                <<IF index(id) = 1 THEN chain_spur
                  ELSE ChainNames[index(id) - 1],
                  IF index(id) = entries - 1 THEN chain_source
                  ELSE ChainNames[index(id) + 1]>>]]

\* build_network_lookup over the files of the chain
chain_lookup(table) ==
  [id \in DOMAIN table |->
     [layer |-> table[id].layer,
      connections |-> unwrap(table[id].connections),
      feature |-> [connections |-> table[id].connections,
                   start_connections |-> <<>>,
                   end_connections |-> <<>>]]]

\* process_connections_batch over the warehouse rows of the chain
chain_cache(table) ==
  [id \in DOMAIN table |->
     [connections |-> parse_connections(table[id].connections),
      layer |-> table[id].layer]]

ChainInit ==
  /\ StepIdle
  /\ \E entries \in 2..MaxChain :
       /\ network_lookup = chain_lookup(chain_table(entries))
       /\ connections_cache = chain_cache(chain_table(entries))
  /\ geometry = <<>>
  /\ rows = <<>>
  /\ pc = "chain"
  /\ layer_idx = 1
  /\ pending = {}
  /\ all_results = <<>>
  /\ raised = {}
  /\ point = 0
  /\ closest_elements = <<>>
  /\ attempt = 0
  /\ path = <<>>
  /\ success = FALSE
  /\ result_info = <<>>
  /\ results = <<>>
  /\ site_results = {}
  /\ RulesIdle

\* network_path_finder: find_path_to_source from a feature of the chain
chain_find_path_to_source(start_id) ==
  /\ pc = "chain"
  /\ start_id \in DOMAIN network_lookup
  /\ path' = find_path_to_source(start_id, network_lookup)
  /\ UNCHANGED <<geometry, rows, pc, engine_vars, network_lookup, point,
                 closest_elements, attempt, success, result_info, results>>
  /\ UNCHANGED grid_vars
  /\ UNCHANGED step_vars
  /\ UNCHANGED rules_vars

\* enepro_site_orange_analysis: find_path_bfs from a feature of the chain,
\* every row of the chain being cached
chain_find_path_bfs(start_id) ==
  /\ pc = "chain"
  /\ start_id \in DOMAIN connections_cache
  /\ results' = create_site_result(
                  start_id,
                  find_path_bfs(start_id, connections_cache,
                                poste_source_layer, max_depth))
  /\ UNCHANGED <<geometry, rows, pc, engine_vars, network_lookup, point,
                 closest_elements, attempt, path, success, result_info>>
  /\ UNCHANGED grid_vars
  /\ UNCHANGED step_vars
  /\ UNCHANGED rules_vars

ChainNext ==
  \/ \E start_id \in Range(ChainNames) \cup {chain_source, chain_spur} :
       chain_find_path_to_source(start_id)
  \/ \E start_id \in Range(ChainNames) \cup {chain_source, chain_spur} :
       chain_find_path_bfs(start_id)

SpecChain == ChainInit /\ [][ChainNext]_vars

\* ------------------------------------------------------------------------
\* The bridging strategies as functions of the network: four features, each
\* at one of four spots, joined by a set of connections that every joined
\* feature lists; one feature may also list an id absent from the files
\* ------------------------------------------------------------------------
BridgeSpots == {0, 4000, 6000, 7000}

BridgeCast ==
  {"postes_source_1", "postes_electrique_1", "reseau_bt_1", "reseau_bt_2"}

BridgeStores ==
  {[id \in BridgeCast |-> IF IsLine(id) THEN <<at[id], at[id] + 500>>
                          ELSE <<at[id], at[id]>>]
   : at \in [BridgeCast -> BridgeSpots]}

BridgeLinks == SUBSET {e \in SUBSET BridgeCast : Cardinality(e) = 2}

\* the saved rows of a network with the connections links, the feature
\* dangling listing reseau_souterrain_hta_1 as well
bridge_rows(links, dangling) ==
  [id \in BridgeCast |->
     [connections |->
        SetToList({v \in BridgeCast : {id, v} \in links /\ v # id}
                    \cup (IF id = dangling
                          THEN {"reseau_souterrain_hta_1"} ELSE {})),
      start_connections |-> <<>>,
      end_connections |-> <<>>]]

BridgeInit ==
  /\ StepIdle
  /\ geometry \in BridgeStores
  /\ \E links \in BridgeLinks, dangling \in {"none", "reseau_bt_2"} :
       rows = bridge_rows(links, dangling)
  /\ network_lookup = build_network_lookup(geometry, rows)
  /\ pc = "bridge"
  /\ layer_idx = 1
  /\ pending = {}
  /\ all_results = <<>>
  /\ raised = {}
  /\ point = 0
  /\ closest_elements = <<>>
  /\ attempt = 0
  /\ path = <<>>
  /\ success = FALSE
  /\ result_info = <<>>
  /\ results = <<>>
  /\ GridIdle
  /\ RulesIdle

\* NetworkBridger.build_components on the network: the returned dictionary
\* and the component_mapping it leaves in the bridger
bridge_build_components ==
  /\ pc = "bridge"
  /\ results' =
       [components |-> build_components(geometry, network_lookup),
        component_mapping |->
          [n \in DOMAIN network_lookup |->
             component_mapping(geometry, network_lookup, n)]]
  /\ pc' = "bridged"
  /\ UNCHANGED <<geometry, rows, engine_vars, network_lookup, point,
                 closest_elements, attempt, path, success, result_info>>
  /\ UNCHANGED grid_vars
  /\ UNCHANGED step_vars
  /\ UNCHANGED rules_vars

\* find_path_with_bridging from the feature start_id
bridge_find_path_with_bridging(start_id) ==
  /\ pc = "bridge"
  /\ start_id \in DOMAIN network_lookup
  /\ path' = find_path_with_bridging(geometry, start_id, network_lookup)
  /\ result_info' = [strategy |-> "bridging", start_id |-> start_id]
  /\ pc' = "bridged"
  /\ UNCHANGED <<geometry, rows, engine_vars, network_lookup, point,
                 closest_elements, attempt, success, results>>
  /\ UNCHANGED grid_vars
  /\ UNCHANGED step_vars
  /\ UNCHANGED rules_vars

\* find_path_with_multiple_hops from the feature start_id
bridge_find_path_with_multiple_hops(start_id) ==
  /\ pc = "bridge"
  /\ start_id \in DOMAIN network_lookup
  /\ path' = find_path_with_multiple_hops(geometry, IdLayer[start_id],
                                          start_id, network_lookup)
  /\ result_info' = [strategy |-> "multi_hop", start_id |-> start_id]
  /\ pc' = "bridged"
  /\ UNCHANGED <<geometry, rows, engine_vars, network_lookup, point,
                 closest_elements, attempt, success, results>>
  /\ UNCHANGED grid_vars
  /\ UNCHANGED step_vars
  /\ UNCHANGED rules_vars

BridgeNext ==
  \/ bridge_build_components
  \/ \E start_id \in BridgeCast : bridge_find_path_with_bridging(start_id)
  \/ \E start_id \in BridgeCast : bridge_find_path_with_multiple_hops(start_id)

SpecBridge == BridgeInit /\ [][BridgeNext]_vars

\* ------------------------------------------------------------------------
\* Both engines on a LineString whose first and last coordinates coincide:
\* the low-voltage line reseau_bt_1, among two substations and the line
\* reseau_bt_2
\* ------------------------------------------------------------------------
ClosedStores ==
  {[id \in {"postes_source_1", "postes_electrique_1", "reseau_bt_1",
            "reseau_bt_2"} |->
      IF id = "postes_source_1" THEN p1
      ELSE IF id = "postes_electrique_1" THEN p2
      ELSE IF id = "reseau_bt_1" THEN <<c, c>> ELSE l2]
   : p1 \in PointGeoms, p2 \in PointGeoms, c \in Coords, l2 \in LineGeoms}

ClosedInit ==
  /\ StepIdle
  /\ geometry \in ClosedStores
  /\ rows = [id \in DOMAIN geometry |-> EmptyResult]
  /\ pc = "closed"
  /\ layer_idx = 1
  /\ pending = {}
  /\ all_results = <<>>
  /\ raised = {}
  /\ FinderIdle
  /\ GridIdle
  /\ RulesIdle

\* process_feature_worker on the row of the closed LineString, and what its
\* other branch returns for a Point of the layer at the same place
closed_process_feature_worker(max_connections_per_endpoint) ==
  /\ pc = "closed"
  /\ probe' =
       [engine |-> "update_enedis_data",
        row |-> process_feature_worker(geometry, "reseau_bt_1",
                                       max_connections_per_endpoint),
        as_point |-> worker_point_branch(geometry, "reseau_bt_1",
                                         max_connections_per_endpoint)]
  /\ pc' = "closed_done"
  /\ UNCHANGED <<geometry, rows, engine_vars, finder_vars, rule_cfg>>
  /\ UNCHANGED grid_vars
  /\ UNCHANGED step_vars

\* data_connections find_connections on the same row
closed_find_connections ==
  /\ pc = "closed"
  /\ probe' =
       [engine |-> "data_connections",
        row |-> dc_find_connections(geometry, "reseau_bt_1"),
        as_point |-> dc_point_branch(geometry, "reseau_bt_1")]
  /\ pc' = "closed_done"
  /\ UNCHANGED <<geometry, rows, engine_vars, finder_vars, rule_cfg>>
  /\ UNCHANGED grid_vars
  /\ UNCHANGED step_vars

ClosedNext ==
  \/ \E max_connections \in {1, 60} :
       closed_process_feature_worker(max_connections)
  \/ closed_find_connections

SpecClosed == ClosedInit /\ [][ClosedNext]_vars

\* compute_connections: the layer of this key has been through
\* find_connections
layer_done(layer_key) ==
  LET ls == sorted_layers(geometry)
      k == CHOOSE i \in 1..Len(ls) : ls[i] = layer_key
  IN pc \in {"computed", "optimized", "core_done"} \/ k < layer_idx

AllListed(row) ==
  Range(row.connections) \cup Range(row.start_connections)
    \cup Range(row.end_connections)

\* chunked_processor.process_layer_in_chunks: find_connections on one chunk,
\* whose all_features are the features of view; the row of feature_id is
\* filled from the result of the future yielded at its position, worker_id
DefaultMaxConnections == 10

chunk_row(g, view, feature_id, worker_id) ==
  LET all_features_combined == [id \in view |-> g[id]]
  IN validate_row(all_features_combined, feature_id,
                  process_feature_worker(all_features_combined, worker_id,
                                         DefaultMaxConnections))

\* process_layer_in_chunks: the lists of a feature met in two chunks
merge_chunk_rows(a, b) ==
  [connections |-> SetToList(Range(a.connections \o b.connections)),
   start_connections |->
     SetToList(Range(a.start_connections \o b.start_connections)),
   end_connections |->
     SetToList(Range(a.end_connections \o b.end_connections))]

\* the chunk views of a feature: the whole store, or the store without one
\* feature lying outside the buffered chunk
ChunkViews(g, feature_id) ==
  {DOMAIN g} \cup {DOMAIN g \ {x} : x \in DOMAIN g \ {feature_id}}

ChunkRows(g, feature_id) ==
  UNION {{chunk_row(g, view, feature_id, w) :
            w \in {x \in view : IdLayer[x] = IdLayer[feature_id]}}
         : view \in ChunkViews(g, feature_id)}

\* ------------------------------------------------------------------------
\* compute_connections_in_chunks over the loaded layers
\* ------------------------------------------------------------------------
ChunkSizes == {1, 2, 5000}

ChunkedInit ==
  /\ StepIdle
  /\ geometry \in Stores
  /\ rows = [id \in DOMAIN geometry |-> EmptyResult]
  /\ pc = "chunks"
  /\ layer_idx = 1
  /\ pending = {}
  /\ all_results = <<>>
  /\ raised = {}
  /\ FinderIdle
  /\ GridIdle
  /\ RulesIdle

\* process_layer_in_chunks for the row of feature_id: a layer of at most
\* chunk_size features is returned as it was loaded; otherwise the row comes
\* from a chunk whose buffered area leaves out the feature outside, its
\* future completing at the position of worker_id, merged with the row of a
\* second chunk when the feature lies in two
process_layer_in_chunks(g, loaded, feature_id, chunk_size, outside, swapped, twice) ==
  LET layer == LayerIds(g, IdLayer[feature_id])
      view == DOMAIN g \ ({outside} \ {feature_id})
      others == {x \in Range(layer) \cap view : x # feature_id}
      worker_id == IF swapped /\ others # {}
                   THEN CHOOSE x \in others : TRUE ELSE feature_id
      first == chunk_row(g, view, feature_id, worker_id)
  IN IF Len(layer) <= chunk_size THEN loaded[feature_id]
     ELSE IF twice
          THEN merge_chunk_rows(first,
                                chunk_row(g, DOMAIN g, feature_id, feature_id))
     ELSE first

\* compute_connections_in_chunks(layers, chunk_size): every layer through
\* process_layer_in_chunks
compute_connections_in_chunks(chunk_size) ==
  /\ pc = "chunks"
  /\ \E outside \in IdSet \cup {"none"}, swapped \in BOOLEAN, twice \in BOOLEAN :
       /\ rows' = [id \in DOMAIN geometry |->
                    process_layer_in_chunks(geometry, rows, id, chunk_size,
                                            outside, swapped, twice)]
       /\ probe' = [chunk_size |-> chunk_size, outside |-> outside,
                    swapped |-> swapped, twice |-> twice]
  /\ pc' = "chunks_done"
  /\ UNCHANGED <<geometry, engine_vars, finder_vars, rule_cfg>>
  /\ UNCHANGED grid_vars
  /\ UNCHANGED step_vars

ChunkedNext == \E chunk_size \in ChunkSizes : compute_connections_in_chunks(chunk_size)

SpecChunked == ChunkedInit /\ [][ChunkedNext]_vars

\* ------------------------------------------------------------------------
\* update_enedis_data/utils.py: a call of a function wrapped by retry
\* ------------------------------------------------------------------------
ExceptionTypes ==
  {"GoogleCloudError", "ValueError", "IOError", "GoogleAPIError", "KeyError"}

\* the exceptions tuples of the decorated functions: (Exception,) by
\* default, those of upload_layer_to_bigquery, those of cloud_storage_utils
ExceptionTuples ==
  {ExceptionTypes, {"GoogleCloudError", "ValueError", "IOError"},
   {"GoogleAPIError"}}

RetryInit ==
  /\ \E max_attempts \in 0..MaxAttempts, exceptions \in ExceptionTuples :
       retry_call = [max_attempts |-> max_attempts,
                     exceptions |-> exceptions,
                     attempts |-> 0,
                     current_delay |-> 1,
                     slept |-> 0,
                     invocations |-> <<>>,
                     status |-> "running",
                     outcome |-> <<>>]
  /\ search = <<>>
  /\ pipeline = <<>>
  /\ grid_run = <<>>
  /\ geometry = <<>>
  /\ rows = <<>>
  /\ pc = "retry"
  /\ layer_idx = 1
  /\ pending = {}
  /\ all_results = <<>>
  /\ raised = {}
  /\ FinderIdle
  /\ GridIdle
  /\ RulesIdle

\* wrapper: one pass through the body of the while loop, func ending with
\* result, "value" or the type of the exception it raises; backoff is 2
wrapper_keeps_trying(call, result) ==
  LET invocations == Append(call.invocations, result)
      attempts == call.attempts + 1
  IN IF result = "value"
     THEN [call EXCEPT !.invocations = invocations,
                       !.status = "returned",
                       !.outcome = <<"value", Len(invocations)>>]
     ELSE IF result \notin call.exceptions
     THEN [call EXCEPT !.invocations = invocations,
                       !.status = "raised",
                       !.outcome = <<result, Len(invocations)>>]
     ELSE IF attempts = call.max_attempts + 1
     THEN [call EXCEPT !.invocations = invocations,
                       !.attempts = attempts,
                       !.status = "raised",
                       !.outcome = <<result, Len(invocations)>>]
     ELSE [call EXCEPT !.invocations = invocations,
                       !.attempts = attempts,
                       !.slept = call.slept + call.current_delay,
                       !.current_delay = call.current_delay * 2]

wrapper_body(call, result) ==
  LET invocations == Append(call.invocations, result)
      attempts == call.attempts + 1
  IN IF result = "value"
     THEN [call EXCEPT !.invocations = invocations,
                       !.status = "returned",
                       !.outcome = <<"value", Len(invocations)>>]
     ELSE IF result \notin call.exceptions
     THEN [call EXCEPT !.invocations = invocations,
                       !.status = "raised",
                       !.outcome = <<result, Len(invocations)>>]
     ELSE IF attempts = call.max_attempts
     THEN [call EXCEPT !.invocations = invocations,
                       !.attempts = attempts,
                       !.status = "raised",
                       !.outcome = <<result, Len(invocations)>>]
     ELSE [call EXCEPT !.invocations = invocations,
                       !.attempts = attempts,
                       !.slept = call.slept + call.current_delay,
                       !.current_delay = call.current_delay * 2]

\* wrapper: "while attempts < max_attempts" holds, func is invoked
retry_invoke(result) ==
  /\ pc = "retry"
  /\ retry_call.status = "running"
  /\ retry_call.attempts < retry_call.max_attempts
  /\ retry_call' = wrapper_body(retry_call, result)
  /\ UNCHANGED <<geometry, rows, pc, engine_vars, finder_vars, search,
                 pipeline, grid_run>>
  /\ UNCHANGED grid_vars
  /\ UNCHANGED rules_vars

\* wrapper: the loop condition fails, "return None"
retry_fall_through ==
  /\ pc = "retry"
  /\ retry_call.status = "running"
  /\ retry_call.attempts >= retry_call.max_attempts
  /\ retry_call' = [retry_call EXCEPT !.status = "returned",
                                      !.outcome = <<"None", 0>>]
  /\ UNCHANGED <<geometry, rows, pc, engine_vars, finder_vars, search,
                 pipeline, grid_run>>
  /\ UNCHANGED grid_vars
  /\ UNCHANGED rules_vars

RetryNext ==
  \/ \E result \in ExceptionTypes \cup {"value"} : retry_invoke(result)
  \/ retry_fall_through

SpecRetry == RetryInit /\ [][RetryNext]_vars

\* ------------------------------------------------------------------------
\* The graph searches of the path finders, one loop iteration per step, on
\* the networks of four features: search.queue, search.visited are the
\* locals of the search, search.expanded the nodes whose connections have
\* been iterated over, in order
\* ------------------------------------------------------------------------
SearchKinds ==
  {"find_path_to_source", "_get_connected_component", "find_path_bfs",
   "collect_elements_to_query"}

\* the locals of a search just before its while loop
search_call(kind, start_id, lookup) ==
  [kind |-> kind,
   start_id |-> start_id,
   queue |-> IF kind \in {"find_path_to_source", "find_path_bfs"}
             THEN <<(<<start_id>>)>> ELSE <<start_id>>,
   visited |-> IF kind \in {"find_path_to_source", "_get_connected_component"}
               THEN {start_id} ELSE {},
   expanded |-> <<>>,
   status |-> IF kind = "find_path_to_source" /\ start_id \notin DOMAIN lookup
              THEN "returned" ELSE "running",
   result |-> <<>>]

SearchInit ==
  /\ geometry = [id \in BridgeCast |-> <<0, 0>>]
  /\ \E links \in BridgeLinks, dangling \in {"none", "reseau_bt_2"} :
       rows = bridge_rows(links, dangling)
  /\ network_lookup = build_network_lookup(geometry, rows)
  /\ \E cached \in {BridgeCast, BridgeCast \ {"reseau_bt_1"}} :
       connections_cache = fetch_connections_batch(rows, cached)
  /\ \E kind \in SearchKinds, start_id \in IdSet :
       search = search_call(kind, start_id, network_lookup)
  /\ retry_call = <<>>
  /\ pipeline = <<>>
  /\ grid_run = <<>>
  /\ pc = "search"
  /\ layer_idx = 1
  /\ pending = {}
  /\ all_results = <<>>
  /\ raised = {}
  /\ point = 0
  /\ closest_elements = <<>>
  /\ attempt = 0
  /\ path = <<>>
  /\ success = FALSE
  /\ result_info = <<>>
  /\ results = <<>>
  /\ site_results = {}
  /\ RulesIdle

\* find_path_to_source: the test of the while loop and one iteration
find_path_to_source_step ==
  /\ pc = "search"
  /\ search.kind = "find_path_to_source"
  /\ search.status = "running"
  /\ search' =
       IF search.queue = <<>>
       THEN [search EXCEPT !.status = "returned"]
       ELSE LET id_path == Head(search.queue)
                current_id == Last(id_path)
                new == Unvisited(Iterate(network_lookup[current_id].connections),
                                 DOMAIN network_lookup, search.visited)
            IN IF network_lookup[current_id].layer = SOURCE_SUBSTATION_LAYER
               THEN [search EXCEPT !.status = "returned",
                                   !.result = with_layers(network_lookup, id_path)]
               ELSE [search EXCEPT
                       !.queue = Tail(search.queue)
                                   \o [i \in 1..Len(new) |-> Append(id_path, new[i])],
                       !.visited = search.visited \cup Range(new),
                       !.expanded = Append(search.expanded, current_id)]
  /\ UNCHANGED <<geometry, rows, pc, engine_vars, finder_vars, retry_call,
                 pipeline, grid_run>>
  /\ UNCHANGED <<connections_cache, site_results>>
  /\ UNCHANGED rules_vars

\* NetworkBridger._get_connected_component: the test of the while loop and
\* one iteration
_get_connected_component_step ==
  /\ pc = "search"
  /\ search.kind = "_get_connected_component"
  /\ search.status = "running"
  /\ search' =
       IF search.queue = <<>>
       THEN [search EXCEPT !.status = "returned", !.result = search.visited]
       ELSE LET current_id == Head(search.queue)
                new == IF current_id \in DOMAIN network_lookup
                       THEN Unvisited(
                              Iterate(network_lookup[current_id].connections),
                              DOMAIN network_lookup, search.visited)
                       ELSE <<>>
            IN [search EXCEPT
                  !.queue = Tail(search.queue) \o new,
                  !.visited = search.visited \cup Range(new),
                  !.expanded = IF current_id \in DOMAIN network_lookup
                               THEN Append(search.expanded, current_id)
                               ELSE search.expanded]
  /\ UNCHANGED <<geometry, rows, pc, engine_vars, finder_vars, retry_call,
                 pipeline, grid_run>>
  /\ UNCHANGED <<connections_cache, site_results>>
  /\ UNCHANGED rules_vars

\* find_path_bfs without "visited.add(current_id)"
find_path_bfs_step_unmarked ==
  /\ pc = "search"
  /\ search.kind = "find_path_bfs"
  /\ search.status = "running"
  /\ search' =
       IF search.queue = <<>>
       THEN [search EXCEPT !.status = "returned"]
       ELSE LET id_path == Head(search.queue)
                current_id == Last(id_path)
                seen == search.visited
                conns == IF current_id \in DOMAIN connections_cache
                         THEN SelectSeq(connections_cache[current_id].connections,
                                        LAMBDA c : c \notin seen)
                         ELSE <<>>
            IN IF Len(id_path) > max_depth \/ current_id \in search.visited
               THEN [search EXCEPT !.queue = Tail(search.queue)]
               ELSE IF current_id \notin DOMAIN connections_cache
               THEN [search EXCEPT !.queue = Tail(search.queue),
                                   !.visited = seen]
               ELSE IF connections_cache[current_id].layer = poste_source_layer
               THEN [search EXCEPT !.status = "returned",
                                   !.visited = seen,
                                   !.result = <<current_id, id_path>>]
               ELSE [search EXCEPT
                       !.queue = Tail(search.queue)
                                   \o [i \in 1..Len(conns) |->
                                         Append(id_path, conns[i])],
                       !.visited = seen,
                       !.expanded = Append(search.expanded, current_id)]
  /\ UNCHANGED <<geometry, rows, pc, engine_vars, finder_vars, retry_call,
                 pipeline, grid_run>>
  /\ UNCHANGED <<connections_cache, site_results>>
  /\ UNCHANGED rules_vars

\* find_path_bfs: the test of the while loop and one iteration
find_path_bfs_step ==
  /\ pc = "search"
  /\ search.kind = "find_path_bfs"
  /\ search.status = "running"
  /\ search' =
       IF search.queue = <<>>
       THEN [search EXCEPT !.status = "returned"]
       ELSE LET id_path == Head(search.queue)
                current_id == Last(id_path)
                seen == search.visited \cup {current_id}
                conns == IF current_id \in DOMAIN connections_cache
                         THEN SelectSeq(connections_cache[current_id].connections,
                                        LAMBDA c : c \notin seen)
                         ELSE <<>>
            IN IF Len(id_path) > max_depth \/ current_id \in search.visited
               THEN [search EXCEPT !.queue = Tail(search.queue)]
               ELSE IF current_id \notin DOMAIN connections_cache
               THEN [search EXCEPT !.queue = Tail(search.queue),
                                   !.visited = seen]
               ELSE IF connections_cache[current_id].layer = poste_source_layer
               THEN [search EXCEPT !.status = "returned",
                                   !.visited = seen,
                                   !.result = <<current_id, id_path>>]
               ELSE [search EXCEPT
                       !.queue = Tail(search.queue)
                                   \o [i \in 1..Len(conns) |->
                                         Append(id_path, conns[i])],
                       !.visited = seen,
                       !.expanded = Append(search.expanded, current_id)]
  /\ UNCHANGED <<geometry, rows, pc, engine_vars, finder_vars, retry_call,
                 pipeline, grid_run>>
  /\ UNCHANGED <<connections_cache, site_results>>
  /\ UNCHANGED rules_vars

\* collect_elements_to_query: the test of the while loop and one iteration
collect_elements_to_query_step ==
  /\ pc = "search"
  /\ search.kind = "collect_elements_to_query"
  /\ search.status = "running"
  /\ search' =
       IF \/ search.queue = <<>>
          \/ Cardinality(search.visited) >= exploration_limit
       THEN [search EXCEPT !.status = "returned", !.result = search.visited]
       ELSE LET current_id == Head(search.queue)
            IN IF current_id \in search.visited
               THEN [search EXCEPT !.queue = Tail(search.queue)]
               ELSE [search EXCEPT
                       !.queue =
                         Tail(search.queue)
                           \o (IF current_id \in DOMAIN connections_cache
                               THEN connections_cache[current_id].connections
                               ELSE <<>>),
                       !.visited = search.visited \cup {current_id},
                       !.expanded =
                         IF current_id \in DOMAIN connections_cache
                         THEN Append(search.expanded, current_id)
                         ELSE search.expanded]
  /\ UNCHANGED <<geometry, rows, pc, engine_vars, finder_vars, retry_call,
                 pipeline, grid_run>>
  /\ UNCHANGED <<connections_cache, site_results>>
  /\ UNCHANGED rules_vars

SearchNext ==
  \/ find_path_to_source_step
  \/ _get_connected_component_step
  \/ find_path_bfs_step
  \/ collect_elements_to_query_step

\* a running loop goes on to its next iteration
SpecSearch == SearchInit /\ [][SearchNext]_vars /\ WF_vars(SearchNext)

\* ------------------------------------------------------------------------
\* Consecutive runs of the s_update_enedis pipeline in one working
\* directory: pipeline.individual[k] is the run whose data the file
\* ../output/individual/k.geojson was computed from (0: no file),
\* pipeline.updated_layers[k] the run and kind of the layer main saves
\* ------------------------------------------------------------------------
PipelineLayers == {"postes_source", "reseau_souterrain_hta", "reseau_bt"}

PipelineInit ==
  /\ pipeline = [run |-> 0,
                 status |-> "idle",
                 individual |-> [k \in PipelineLayers |-> 0],
                 updated_layers |-> <<>>,
                 outcome |-> FALSE]
  /\ retry_call = <<>>
  /\ search = <<>>
  /\ grid_run = <<>>
  /\ geometry = <<>>
  /\ rows = <<>>
  /\ pc = "pipeline"
  /\ layer_idx = 1
  /\ pending = {}
  /\ all_results = <<>>
  /\ raised = {}
  /\ FinderIdle
  /\ GridIdle
  /\ RulesIdle

\* main up to "layers = load_all_layers(source=data_source)", which returns
\* or raises
main_load_all_layers(loads) ==
  /\ pc = "pipeline"
  /\ pipeline.status \in {"idle", "returned"}
  /\ pipeline.run < MaxRuns
  /\ pipeline' = [pipeline EXCEPT !.run = pipeline.run + 1,
                                  !.status = IF loads THEN "loaded" ELSE "returned",
                                  !.updated_layers = <<>>,
                                  !.outcome = FALSE]
  /\ UNCHANGED <<geometry, rows, pc, engine_vars, finder_vars, retry_call,
                 search, grid_run>>
  /\ UNCHANGED grid_vars
  /\ UNCHANGED rules_vars

\* check_processed_layers: the layers with a file in the individual folder
check_processed_layers(individual) ==
  {k \in PipelineLayers : individual[k] # 0}

\* process_all_connections(layers), resume_from_individual left at True;
\* calculate_layer_connections raises for the layers of failing
process_all_connections(run, individual, failing) ==
  LET processed_layers == check_processed_layers(individual)
  IN [updated_layers |->
        [k \in PipelineLayers |->
           IF k \in processed_layers THEN <<individual[k], "connections">>
           ELSE IF k \in failing THEN <<run, "original">>
           ELSE <<run, "connections">>],
      individual |->
        [k \in PipelineLayers |->
           IF k \in processed_layers \/ k \in failing
           THEN individual[k] ELSE run]]

\* main: "connected_layers = process_all_connections(layers)"
main_process_all_connections(failing) ==
  /\ pc = "pipeline"
  /\ pipeline.status = "loaded"
  /\ LET done == process_all_connections(pipeline.run, pipeline.individual,
                                         failing)
     IN pipeline' = [pipeline EXCEPT !.status = "connected",
                                     !.individual = done.individual,
                                     !.updated_layers = done.updated_layers]
  /\ UNCHANGED <<geometry, rows, pc, engine_vars, finder_vars, retry_call,
                 search, grid_run>>
  /\ UNCHANGED grid_vars
  /\ UNCHANGED rules_vars

\* main from save_all_layers to its return: True after the line that logs
\* "Cleaning up individual layer files...", False when the export raised
main_save_all_layers(saved) ==
  /\ pc = "pipeline"
  /\ pipeline.status = "connected"
  /\ pipeline' = [pipeline EXCEPT !.status = "returned", !.outcome = saved]
  /\ UNCHANGED <<geometry, rows, pc, engine_vars, finder_vars, retry_call,
                 search, grid_run>>
  /\ UNCHANGED grid_vars
  /\ UNCHANGED rules_vars

PipelineNext ==
  \/ \E loads \in BOOLEAN : main_load_all_layers(loads)
  \/ \E failing \in SUBSET PipelineLayers : main_process_all_connections(failing)
  \/ \E saved \in BOOLEAN : main_save_all_layers(saved)

SpecPipeline == PipelineInit /\ [][PipelineNext]_vars

\* ------------------------------------------------------------------------
\* Consecutive runs of GridProcessor.run against one temp table: a row of
\* the table is <<run, batch_num>>, the run and batch that saved it;
\* grid_run.saved is the set of rows this run handed to save_batch
\* ------------------------------------------------------------------------
BatchSizes == {1, 2}

GridRunInit ==
  /\ grid_run = [run |-> 0,
                 status |-> "idle",
                 total_sites |-> 0,
                 batch_size |-> 1,
                 processed |-> 0,
                 batch_num |-> 0,
                 temp_table |-> {},
                 final_table |-> {},
                 saved |-> {}]
  /\ retry_call = <<>>
  /\ search = <<>>
  /\ pipeline = <<>>
  /\ geometry = <<>>
  /\ rows = <<>>
  /\ pc = "grid_run"
  /\ layer_idx = 1
  /\ pending = {}
  /\ all_results = <<>>
  /\ raised = {}
  /\ FinderIdle
  /\ GridIdle
  /\ RulesIdle

\* BigQueryClient.save_batch: the table after loading df with the
\* disposition is_first_batch selects
save_batch(temp_table, df, is_first_batch) ==
  IF df = {} THEN temp_table
  ELSE IF is_first_batch THEN df
  ELSE temp_table \cup df

\* GridProcessor.run up to its while loop
run_get_total_sites(total_sites, batch_size) ==
  /\ pc = "grid_run"
  /\ grid_run.status \in {"idle", "finalized"}
  /\ grid_run.run < MaxRuns
  /\ grid_run' = [grid_run EXCEPT !.run = grid_run.run + 1,
                                  !.status = "batches",
                                  !.total_sites = total_sites,
                                  !.batch_size = batch_size,
                                  !.processed = 0,
                                  !.batch_num = 0,
                                  !.saved = {}]
  /\ UNCHANGED <<geometry, rows, pc, engine_vars, finder_vars, retry_call,
                 search, pipeline>>
  /\ UNCHANGED grid_vars
  /\ UNCHANGED rules_vars

\* one iteration of the while loop of run: process_batch returns rows,
\* returns an empty frame, or raises
run_batch(batch) ==
  /\ pc = "grid_run"
  /\ grid_run.status = "batches"
  /\ grid_run.processed < grid_run.total_sites
  /\ LET current_batch_size == Min2(grid_run.batch_size,
                                    grid_run.total_sites - grid_run.processed)
         batch_results == IF batch = "rows"
                          THEN {<<grid_run.run, grid_run.batch_num>>} ELSE {}
     IN grid_run' =
          [grid_run EXCEPT
             !.temp_table = IF batch = "rows"
                            THEN save_batch(grid_run.temp_table, batch_results,
                                            grid_run.batch_num = 0)
                            ELSE grid_run.temp_table,
             !.saved = grid_run.saved \cup batch_results,
             !.processed = grid_run.processed + current_batch_size,
             !.batch_num = grid_run.batch_num + 1]
  /\ UNCHANGED <<geometry, rows, pc, engine_vars, finder_vars, retry_call,
                 search, pipeline>>
  /\ UNCHANGED grid_vars
  /\ UNCHANGED rules_vars

\* run: the loop is left and finalize copies the temp table
run_finalize ==
  /\ pc = "grid_run"
  /\ grid_run.status = "batches"
  /\ grid_run.processed >= grid_run.total_sites
  /\ grid_run' = [grid_run EXCEPT !.status = "finalized",
                                  !.final_table = grid_run.temp_table]
  /\ UNCHANGED <<geometry, rows, pc, engine_vars, finder_vars, retry_call,
                 search, pipeline>>
  /\ UNCHANGED grid_vars
  /\ UNCHANGED rules_vars

GridRunNext ==
  \/ \E total_sites \in 0..MaxSites, batch_size \in BatchSizes :
       run_get_total_sites(total_sites, batch_size)
  \/ \E batch \in {"rows", "empty", "raise"} : run_batch(batch)
  \/ run_finalize

SpecGridRun == GridRunInit /\ [][GridRunNext]_vars

\* ------------------------------------------------------------------------
\* Properties of the connection pipeline
\* ------------------------------------------------------------------------

\* C1: when find_connections has returned for a layer, the three lists of
\* every row of that layer are the (validated) lists process_feature_worker
\* computed for that same feature, whatever order the futures completed in
\* (no future having raised).
C1_RowsMatchWorker ==
  \A id \in DOMAIN geometry :
    (layer_done(IdLayer[id]) /\ pc # "optimized" /\ raised = {}) =>
      rows[id] = validate_row(geometry, id,
                   process_feature_worker(geometry, id,
                                          MaxConnectionsOf(IdLayer[id])))

\* C2: for every LineString feature the ids of connections are the union of
\* the ids of start_connections and end_connections, after find_connections
\* and after optimize_connections.
C2_AllIsStartUnionEnd ==
  \A id \in DOMAIN geometry :
    IsLine(id) =>
      Range(rows[id].connections) =
        Range(rows[id].start_connections) \cup Range(rows[id].end_connections)

\* C3: no feature lists its own id in connections, start_connections or
\* end_connections: in every state of the pipeline (after find_connections
\* and its validation, after cleaning and optimisation), in the lists of the
\* sequential engine, and in the lists merged from two chunks.
C3_NoSelfReference ==
  /\ \A id \in DOMAIN geometry : id \notin AllListed(rows[id])
  /\ (pc = "submit" /\ layer_idx = 1) =>
       \A id \in DOMAIN geometry :
         /\ id \notin AllListed(dc_find_connections(geometry, id))
         /\ \A a \in ChunkRows(geometry, id), b \in ChunkRows(geometry, id) :
              id \notin AllListed(merge_chunk_rows(a, b))

\* a LineString whose endpoint search found the line itself has been
\* through find_connections and optimize_connections and lists a neighbour
C3_Witness ==
  /\ pc = "optimized"
  /\ \E id \in DOMAIN geometry :
       /\ IsLine(id)
       /\ id \in Range(CandidateIds(EndpointCandidates(
                   geometry, id, geometry[id][1],
                   MaxConnectionsOf(IdLayer[id]))))
       /\ rows[id].connections # <<>>

\* C4: no list of a feature of a layer with exclude_connections = X holds
\* the id of a feature whose layer is in X, also after optimize_connections.
C4_ExcludeHonoured ==
  \A id \in DOMAIN geometry :
    \A c \in AllListed(rows[id]) :
      IdLayer[c] \notin LAYERS_CONFIG[IdLayer[id]].exclude_connections

\* C5: when find_connections has processed a layer with a solo table, an
\* endpoint that has a solo candidate in range lists exactly one id, and no
\* solo candidate is nearer to the endpoint than the listed one.
C5_SoloNearest ==
  \A id \in DOMAIN geometry :
    LET cfg == LAYERS_CONFIG[IdLayer[id]]
        solo(endpoint) ==
          ValidCandidates(geometry, endpoint,
                          Matches(geometry, endpoint, cfg.radius,
                                  cfg.exclude_connections),
                          cfg.solo_connection_if)
        nearest(endpoint, list) ==
          /\ Len(list) = 1
          /\ \A i \in 1..Len(solo(endpoint)) :
               Distance(geometry[list[1]], PointOf(endpoint))
                 <= solo(endpoint)[i].distance
    IN (IsLine(id) /\ cfg.has_solo /\ layer_done(IdLayer[id])
        /\ pc # "optimized" /\ raised = {}) =>
         /\ solo(geometry[id][1]) # <<>> =>
              nearest(geometry[id][1], rows[id].start_connections)
         /\ solo(geometry[id][2]) # <<>> =>
              nearest(geometry[id][2], rows[id].end_connections)

\* C6: when a layer with mono_connection_per_endpoint and a priority table
\* has been processed, an endpoint with a priority candidate in range (and
\* no solo rule) lists exactly one id, and no priority candidate comes
\* before the listed one in the order (priority, distance).
C6_PriorityLexicographic ==
  \A id \in DOMAIN geometry :
    LET cfg == LAYERS_CONFIG[IdLayer[id]]
        prio(endpoint) ==
          ValidCandidates(geometry, endpoint,
                          Matches100(geometry, endpoint,
                                     adjusted_radius(geometry, endpoint,
                                                     100 * cfg.radius),
                                     cfg.exclude_connections),
                          cfg.priority_connections)
        best(endpoint, list) ==
          /\ Len(list) = 1
          /\ \E i \in 1..Len(prio(endpoint)) :
               /\ prio(endpoint)[i].id = list[1]
               /\ \A j \in 1..Len(prio(endpoint)) :
                    ~CandidateLess(prio(endpoint)[j], prio(endpoint)[i])
    IN (/\ IsLine(id)
        /\ cfg.mono_connection_per_endpoint
        /\ DOMAIN cfg.priority_connections # {}
        /\ ~cfg.has_solo
        /\ layer_done(IdLayer[id])) =>
         /\ prio(geometry[id][1]) # <<>> =>
              best(geometry[id][1], rows[id].start_connections)
         /\ prio(geometry[id][2]) # <<>> =>
              best(geometry[id][2], rows[id].end_connections)

\* ------------------------------------------------------------------------
\* Properties of the path finder
\* ------------------------------------------------------------------------

C8_FallbackOrder ==
  pc \in {"relaxed", "bridging", "multi_hop", "found", "failed"} =>
    LET start == closest_elements[attempt]
        direct == find_path_to_source(start.id, network_lookup)
        relaxed == find_path_with_relaxed_connections(start.id, network_lookup)
        bridging == find_path_with_bridging(geometry, start.id, network_lookup)
        multi_hop == find_path_with_multiple_hops(geometry, start.layer,
                                                  start.id, network_lookup)
    IN /\ pc \in {"relaxed", "bridging", "multi_hop", "failed"} =>
            direct = <<>>
       /\ pc \in {"bridging", "multi_hop", "failed"} => relaxed = <<>>
       /\ pc \in {"multi_hop", "failed"} => bridging = <<>>
       /\ pc = "failed" => multi_hop = <<>> /\ path = <<>>
       /\ pc = "found" =>
            /\ path # <<>>
            /\ path = IF direct # <<>> THEN direct
                      ELSE IF relaxed # <<>> THEN relaxed
                      ELSE IF bridging # <<>> THEN bridging
                      ELSE multi_hop

\* the second strategy found the path after the first one found none
C8_Witness ==
  /\ pc = "found"
  /\ find_path_to_source(closest_elements[attempt].id, network_lookup) = <<>>
  /\ path = find_path_with_relaxed_connections(closest_elements[attempt].id,
                                               network_lookup)

\* C9: in the graph the searches traverse, v is a neighbour of u exactly
\* when u is a neighbour of v.
C9_SymmetricAdjacency ==
  network_lookup # <<>> =>
    LET adj == lookup_adjacency(network_lookup)
        neighbours(u) == Range(adj[u]) \cap DOMAIN network_lookup
    IN \A u \in DOMAIN network_lookup, v \in DOMAIN network_lookup :
         v \in neighbours(u) <=> u \in neighbours(v)

\* C10: the candidates are tried nearest first; a success is reported with
\* the id and the distance of the first candidate that has a path, every
\* candidate before it having none; when no candidate has a path the
\* result has success = FALSE, no path, and names the nearest candidate.
C10_NearestFirst ==
  LET has_path(k) ==
        find_path_with_fallbacks(geometry, closest_elements[k].layer,
                                 closest_elements[k].id, network_lookup) # <<>>
      tried == 1..Len(closest_elements)
  IN /\ \A j \in tried, k \in tried :
          j < k => closest_elements[j].distance <= closest_elements[k].distance
     /\ pc \in {"direct", "relaxed", "bridging", "multi_hop", "found", "failed"}
          => \A j \in 1..(attempt - 1) : ~has_path(j)
     /\ (pc = "done" /\ results.success) =>
          /\ results.closest_bt_element = <<closest_elements[attempt]>>
          /\ has_path(attempt)
          /\ \A j \in 1..(attempt - 1) : ~has_path(j)
          /\ results.path_to_source =
               display_path(find_path_with_fallbacks(
                 geometry, closest_elements[attempt].layer,
                 closest_elements[attempt].id, network_lookup))
     /\ (pc = "done" /\ ~results.success) =>
          /\ \A j \in tried : ~has_path(j)
          /\ "path_to_source" \notin DOMAIN results
          /\ results.closest_bt_element = <<closest_elements[1]>>

\* a success reported for the second candidate, the nearest having no path
C10_Witness ==
  /\ pc = "done"
  /\ results.success
  /\ attempt = 2
  /\ closest_elements[1].distance < closest_elements[2].distance

\* C11: every outcome of find_closest_path is a result with a boolean
\* success field and, when success is false, a reason; a query with no
\* low-voltage feature in range, or with no layer loaded, also yields such a
\* failure result and not an absent one.
C11_OutcomeCarriesReason ==
  pc \in {"done", "returned_none"} =>
    /\ results # <<>>
    /\ "success" \in DOMAIN results
    /\ results.success \in BOOLEAN
    /\ (~results.success => "reason" \in DOMAIN results)

\* C12: when the worker raised for a feature F of a layer find_connections
\* has returned for, the row of F holds three empty lists and the row of
\* every other feature of the layer holds the lists computed for that
\* feature.
C12_FailureIsolated ==
  \A id \in DOMAIN geometry :
    (/\ layer_done(IdLayer[id])
     /\ pc # "optimized"
     /\ \E f \in raised : IdLayer[f] = IdLayer[id]) =>
      rows[id] = IF id \in raised THEN EmptyResult
                 ELSE validate_row(geometry, id,
                        process_feature_worker(geometry, id,
                                               MaxConnectionsOf(IdLayer[id])))

\* C13: when the path found for the query crosses a bridge between two
\* features, the path of the result find_closest_path returns holds a
\* bridge entry between those two features.
C13_BridgeTagged ==
  (pc = "done" /\ results.success) =>
    LET out == results.path_to_source
    IN \A i \in 2..(Len(path) - 1) :
         path[i].layer = "bridge" =>
           \E j \in 2..(Len(out) - 1) :
             /\ out[j].layer = "bridge"
             /\ out[j - 1] = path[i - 1]
             /\ out[j + 1] = path[i + 1]

\* the number of entries of a shortest walk from the frontier to a
\* postes_source feature along the stored connections lists, through the
\* features of the lookup; n entries lead to the frontier, 0 = no walk
RECURSIVE stored_shortest(_, _, _, _)
stored_shortest(lookup, frontier, seen, n) ==
  IF frontier = {} THEN 0
  ELSE IF frontier \cap Sources(lookup) # {} THEN n
  ELSE LET next ==
             (UNION {Range(lookup[id].feature.connections) : id \in frontier}
                \cap DOMAIN lookup) \ seen
       IN stored_shortest(lookup, next, seen \cup next, n + 1)

\* C19: when a postes_source feature can be reached from the start by
\* following the stored connections lists through the features of the
\* lookup, find_path_to_source returns a path, and that path has the fewest
\* entries a walk to a source can have.
C19_DirectBfsComplete ==
  pc \in {"relaxed", "bridging", "multi_hop", "found", "failed"} =>
    LET start_id == closest_elements[attempt].id
        direct == find_path_to_source(start_id, network_lookup)
        shortest == stored_shortest(network_lookup, {start_id}, {start_id}, 1)
    IN shortest > 0 => (direct # <<>> /\ Len(direct) = shortest)

\* ------------------------------------------------------------------------
\* Properties of the grid processor
\* ------------------------------------------------------------------------

\* C14: for a fixed connection table, the (source, path) returned for a
\* start is the same whatever was cached before the call: two site results
\* saved for the same entry point are equal.
C14_CacheIndependent ==
  \A a \in site_results, b \in site_results :
    a.entry_point_id = b.entry_point_id => a = b

\* ------------------------------------------------------------------------
\* Properties of the endpoint rules
\* ------------------------------------------------------------------------

\* C15: at a LineString endpoint whose pool holds a solo-table candidate
\* within its solo radius and a priority-table candidate within its priority
\* radius, both engines return exactly one candidate, a valid solo candidate
\* that no other valid solo candidate precedes in the solo order: the
\* priority-mono rule and the default rule contribute nothing.
C15_SoloFirst ==
  (/\ probe # <<>>
   /\ rule_cfg.has_solo
   /\ probe_solo_valid # <<>>
   /\ probe_priority_valid # <<>>) =>
    LET solo == {probe_solo_valid[i] : i \in 1..Len(probe_solo_valid)}
    IN /\ Len(probe.candidates) = 1
       /\ \E c \in solo :
            /\ c.id = probe.candidates[1].id
            /\ \A d \in solo : ~CandidateLess(d, c)
       /\ \E c \in solo :
            /\ probe.dc_ids = {c.id}
            /\ \A d \in solo : c.distance <= d.distance

\* both rules had a candidate and the priority-mono rule would have picked
\* another feature than the one returned
C15_Witness ==
  /\ probe # <<>>
  /\ rule_cfg.has_solo
  /\ rule_cfg.mono_connection_per_endpoint
  /\ probe_solo_valid # <<>>
  /\ probe_priority_valid # <<>>
  /\ PriorityPick(probe_priority_valid)[1].id # probe.candidates[1].id
  /\ PriorityPick(probe_priority_valid)[1].id \notin probe.dc_ids

\* C16: for a layer with mono_connection_per_endpoint and a priority table,
\* an endpoint where the solo rule does not fire and no priority candidate
\* of the pool lies within its per-layer radius contributes no id, in the
\* rows find_connections filled from the worker's own result and in the
\* lists of the sequential engine: the default rule is no fallback.
C16_NoDefaultFallback ==
  \A id \in DOMAIN geometry :
    LET cfg == LAYERS_CONFIG[IdLayer[id]]
        dc == csv_files[IdLayer[id]]
        pool(c, endpoint) ==
          Matches(geometry, endpoint, c.radius, c.exclude_connections)
        silent(c, endpoint) ==
          /\ ValidCandidates(geometry, endpoint, pool(c, endpoint),
                             c.solo_connection_if) = <<>>
          /\ ValidCandidates(geometry, endpoint, pool(c, endpoint),
                             c.priority_connections) = <<>>
    IN (/\ IsLine(id)
        /\ cfg.mono_connection_per_endpoint
        /\ DOMAIN cfg.priority_connections # {}
        /\ layer_done(IdLayer[id])
        /\ pc # "optimized"
        /\ raised = {}
        /\ rows[id] = validate_row(geometry, id,
                        process_feature_worker(geometry, id,
                                               MaxConnectionsOf(IdLayer[id])))) =>
         /\ silent(cfg, geometry[id][1]) => rows[id].start_connections = <<>>
         /\ silent(cfg, geometry[id][2]) => rows[id].end_connections = <<>>
         /\ silent(dc, geometry[id][1]) =>
              dc_find_connections(geometry, id).start_connections = <<>>
         /\ silent(dc, geometry[id][2]) =>
              dc_find_connections(geometry, id).end_connections = <<>>

\* C17: select_connection_candidates differs from the base-radius search
\* only when that search returned nothing with mono_connection true and a
\* non-empty priority table, and what the retry at the FAR radius returns
\* is the choice of the priority-mono rule over the FAR pool: the best
\* valid priority candidate, or nothing; never a candidate picked by the
\* solo rule or by the default rule.
C17_RetryPriorityOnly ==
  probe # <<>> =>
    LET retried ==
          /\ probe.base = <<>>
          /\ rule_cfg.mono_connection_per_endpoint
          /\ DOMAIN rule_cfg.priority_connections # {}
        far_pool == Matches(geometry, probe.endpoint, FAR,
                            rule_cfg.exclude_connections)
        far_valid == ValidCandidates(geometry, probe.endpoint, far_pool,
                                     rule_cfg.priority_connections)
    IN /\ ~retried => probe.candidates = probe.base
       /\ retried =>
            probe.candidates =
              IF far_valid = <<>> THEN <<>> ELSE PriorityPick(far_valid)

\* C18: when the default rule decides a LineString endpoint (no solo
\* candidate, no priority-mono rule) and the admissible features of the base
\* disk other than F fit in max_connections, the endpoint's list, F removed,
\* is exactly the set of those features: F takes no selection slot and no
\* admissible candidate of the disk is left out.
C18_DefaultKeepsAll ==
  (/\ probe # <<>>
   /\ probe_solo_valid = <<>>
   /\ ~(/\ rule_cfg.mono_connection_per_endpoint
        /\ DOMAIN rule_cfg.priority_connections # {})
   /\ Cardinality(Range(probe_pool) \ {probe.feature_id})
        <= probe.max_connections) =>
    /\ Range(CandidateIds(probe.candidates)) \ {probe.feature_id}
         = Range(probe_pool) \ {probe.feature_id}
    /\ probe.dc_ids \ {probe.feature_id}
         = Range(probe_pool) \ {probe.feature_id}

\* ------------------------------------------------------------------------
\* Properties of the direct searches
\* ------------------------------------------------------------------------

\* C20: a path returned by a direct search, find_path_to_source or
\* find_path_bfs, has at most max_depth entries.
C20_DepthCapped ==
  pc = "chain" =>
    /\ Len(path) <= max_depth
    /\ results # <<>> => results.path_length <= max_depth

\* ------------------------------------------------------------------------
\* Properties of the bridging strategies
\* ------------------------------------------------------------------------
\* the bridge entries of a path, as pairs <<id1, id2>>
bridges_of(p) ==
  [i \in 1..Len(SelectSeq(p, LAMBDA e : e.layer = "bridge")) |->
     LET e == SelectSeq(p, LAMBDA x : x.layer = "bridge")[i]
     IN <<e.id[1], e.id[3]>>]

\* C21: find_path_with_bridging inserts a bridge only between the start's
\* component and a component holding a postes_source whose smallest distance
\* to the start's component is at most 2000, and the two ends of the bridge
\* are a pair of features at that smallest distance.
C21_BridgeIsClosestPair ==
  (pc = "bridged" /\ result_info # <<>> /\ result_info.strategy = "bridging") =>
    \A i \in 1..Len(bridges_of(path)) :
      LET b == bridges_of(path)[i]
          start_component ==
            _get_connected_component(result_info.start_id, network_lookup)
          components == build_components(geometry, network_lookup)
      IN \E k \in 1..Len(components) :
           /\ components[k] \cap Sources(network_lookup) # {}
           /\ b[1] \in start_component
           /\ b[2] \in components[k]
           /\ Distance(geometry[b[1]], geometry[b[2]]) <= BridgingMaxDistance
           /\ \A x \in start_component, y \in components[k] :
                Distance(geometry[b[1]], geometry[b[2]])
                  <= Distance(geometry[x], geometry[y])

RECURSIVE after_bridges(_, _, _, _)
\* the feature find_path_with_multiple_hops stands on after k bridges from
\* current_id, each to the nearest feature outside the current component
\* and within 5000; <<>> when a bridge cannot be made
after_bridges(g, lookup, current_id, k) ==
  IF k = 0 THEN <<current_id>>
  ELSE LET other_elements ==
             DOMAIN lookup \ _get_connected_component(current_id, lookup)
           bridge_info ==
             find_closest_elements_between_components(
               g, {current_id}, other_elements, HopMaxDistance)
       IN IF other_elements = {} \/ bridge_info = <<>> THEN <<>>
          ELSE after_bridges(g, lookup, bridge_info[2], k - 1)

\* C22: find_path_with_multiple_hops returns a path whenever k bridges,
\* 1 <= k <= max_hops, each to the nearest feature of another component and
\* of at most 5000, lead from the start to a feature from which a
\* postes_source is reachable.
C22_MultiHopReaches ==
  (pc = "bridged" /\ result_info # <<>> /\ result_info.strategy = "multi_hop") =>
    \A k \in 1..max_hops :
      LET reached == after_bridges(geometry, network_lookup,
                                   result_info.start_id, k)
      IN (/\ reached # <<>>
          /\ find_path_from_node_to_source(reached[1], network_lookup) # <<>>)
           => path # <<>>

\* C29: build_components returns a partition of the nodes of the network:
\* every node is in exactly one returned component, two returned components
\* are disjoint, and component_mapping names for each node the one component
\* that holds it.
C29_ComponentsPartition ==
  (pc = "bridged" /\ results # <<>>) =>
    LET components == results.components
    IN /\ \A n \in DOMAIN network_lookup :
            /\ Cardinality({k \in 1..Len(components) : n \in components[k]}) = 1
            /\ n \in components[results.component_mapping[n]]
       /\ \A i \in 1..Len(components), j \in 1..Len(components) :
            i # j => components[i] \cap components[j] = {}

\* ------------------------------------------------------------------------
\* Properties of the closed LineString
\* ------------------------------------------------------------------------
\* C23: a LineString whose first and last coordinates coincide gets the
\* row of a Point of its layer at that place: connections is the result of
\* the point rule, start_connections and end_connections are empty.
C23_ClosedLineAsPoint ==
  pc = "closed_done" =>
    /\ Range(probe.row.connections) = Range(probe.as_point.connections)
    /\ probe.row.start_connections = <<>>
    /\ probe.row.end_connections = <<>>

\* ------------------------------------------------------------------------
\* Properties of the chunked pipeline
\* ------------------------------------------------------------------------
\* C24: whatever the chunk size, compute_connections_in_chunks gives every
\* feature the connections, start_connections and end_connections, as sets,
\* that compute_connections gives it on the same layers (every feature
\* lying inside the buffered chunks, the futures completing in order).
C24_ChunkedEquivalent ==
  (pc = "chunks_done" /\ probe.outside = "none" /\ ~probe.swapped) =>
    \A id \in DOMAIN geometry :
      LET reference ==
            validate_row(geometry, id,
              process_feature_worker(geometry, id,
                                     MaxConnectionsOf(IdLayer[id])))
      IN /\ Range(rows[id].connections) = Range(reference.connections)
         /\ Range(rows[id].start_connections)
              = Range(reference.start_connections)
         /\ Range(rows[id].end_connections) = Range(reference.end_connections)

\* ------------------------------------------------------------------------
\* Properties of the retry decorator
\* ------------------------------------------------------------------------
\* C25: a call through retry(max_attempts = n), n >= 1, invokes the function
\* at most n times; it returns the value of the first invocation that does
\* not raise, which is the last invocation; when n invocations raised listed
\* exceptions the exception of the n-th propagates; an exception that is not
\* listed propagates from the invocation that raised it, the last one.
C25_RetryBounded ==
  (pc = "retry" /\ retry_call.max_attempts >= 1) =>
    LET n == retry_call.max_attempts
        inv == retry_call.invocations
        listed(i) == inv[i] \in retry_call.exceptions
    IN /\ Len(inv) <= n
       /\ \A i \in 1..(Len(inv) - 1) : listed(i)
       /\ retry_call.status = "running" =>
            \A i \in 1..Len(inv) : listed(i)
       /\ retry_call.status = "returned" =>
            /\ inv # <<>>
            /\ Last(inv) = "value"
            /\ retry_call.outcome = <<"value", Len(inv)>>
       /\ retry_call.status = "raised" =>
            /\ inv # <<>>
            /\ Last(inv) # "value"
            /\ retry_call.outcome = <<Last(inv), Len(inv)>>
            /\ listed(Len(inv)) => Len(inv) = n
       /\ (Len(inv) = n /\ \A i \in 1..n : listed(i)) =>
            /\ retry_call.status = "raised"
            /\ retry_call.outcome = <<inv[n], n>>
       /\ (inv # <<>> /\ Last(inv) \notin retry_call.exceptions \cup {"value"}) =>
            retry_call.status = "raised"

\* the third invocation returned after two listed exceptions
C25_Witness ==
  /\ pc = "retry"
  /\ retry_call.status = "returned"
  /\ Len(retry_call.invocations) = 3
  /\ retry_call.slept = 3

\* ------------------------------------------------------------------------
\* Properties of the graph searches
\* ------------------------------------------------------------------------
\* C26: on every finite network, cyclic ones and ones whose connection
\* lists name absent ids included, each search iterates over the
\* connections of a node at most once, and the search returns.
C26_SearchTerminates ==
  /\ [](pc = "search" =>
          \A i \in 1..Len(search.expanded), j \in 1..Len(search.expanded) :
            search.expanded[i] = search.expanded[j] => i = j)
  /\ <>(pc = "search" => search.status = "returned")

\* a search has returned after going round a cycle of three features, one of
\* which lists an absent id
C26_Witness ==
  /\ pc = "search"
  /\ search.status = "returned"
  /\ Len(search.expanded) >= 3
  /\ \E id \in DOMAIN rows : "reseau_souterrain_hta_1" \in Range(rows[id].connections)
  /\ \A i \in 1..Len(search.expanded) :
       Cardinality(Range(rows[search.expanded[i]].connections)
                     \cap BridgeCast) >= 2

\* ------------------------------------------------------------------------
\* Properties of the runs of the s_update_enedis pipeline
\* ------------------------------------------------------------------------
\* C27: when main has returned True, no per-layer file is left in the
\* individual folder, and every layer main saved was made from the data
\* loaded in that run.
C27_IndividualCleaned ==
  (pc = "pipeline" /\ pipeline.status = "returned" /\ pipeline.outcome)
    => /\ \A k \in PipelineLayers : pipeline.individual[k] = 0
       /\ \A k \in PipelineLayers : pipeline.updated_layers[k][1] = pipeline.run

\* ------------------------------------------------------------------------
\* Properties of the runs of the grid processor
\* ------------------------------------------------------------------------
\* C28: when run has finished and some batch of it was saved, the temp table
\* holds exactly the rows this run's batches saved.
C28_TempTableIsThisRun ==
  (pc = "grid_run" /\ grid_run.status = "finalized" /\ grid_run.saved # {})
    => grid_run.temp_table = grid_run.saved

\* ------------------------------------------------------------------------
\* Properties of clean_connections
\* ------------------------------------------------------------------------
\* C30: two features joined by a chain of connections in the computed
\* layers are still joined by a chain of connections in the layers
\* clean_connections returns.
C30_CleanKeepsConnected ==
  pc = "computed" =>
    LET cleaned == clean_connections(geometry, rows)
    IN \A u \in DOMAIN rows :
         Closure({u}, UndirectedEdges(rows))
           \subseteq Closure({u}, UndirectedEdges(cleaned))
====
